---- MODULE Spec2Model ----
(***************************************************************************)
(* Model of the inode/directory serializer of mkfs (sqfs_write_inodes,     *)
(* write_child_inodes, write_inode, write_dir) together with the           *)
(* meta-writer it drives.  A behaviour is one call of sqfs_write_inodes on *)
(* one finalized filesystem tree.                                          *)
(***************************************************************************)
EXTENDS Integers, Naturals, Sequences, FiniteSets, TLC

(* ------------------------------------------------------------------ *)
(* Bounds of the model                                                 *)
(* ------------------------------------------------------------------ *)

\* largest number of children of the big directory
MaxChildren == 300

\* longest child name used in the big directory
MaxNameLen == 255

(* ------------------------------------------------------------------ *)
(* Program constants                                                   *)
(* ------------------------------------------------------------------ *)

SQFS_MAX_DIR_ENT == 256

\* sizeof(sqfs_dir_header_t): three uint32_t
DIR_HEADER_SIZE == 12

\* sizeof(sqfs_dir_entry_t): four 16 bit fields, flexible name
DIR_ENTRY_SIZE == 8

\* uncompressed payload of one meta data block
SQFS_META_BLOCK_SIZE == 8192

\* on-disk sizes of the inode structures
INODE_BASE_SIZE == 16
INODE_IPC_SIZE == 4
INODE_SLINK_SIZE == 8
INODE_DEV_SIZE == 8
INODE_FILE_SIZE == 16
INODE_FILE_EXT_SIZE == 40
INODE_DIR_SIZE == 16
INODE_DIR_EXT_SIZE == 24

Pow16 == 65536
Pow20 == 1048576

Min(a, b) == IF a < b THEN a ELSE b

\* conversion to a 16 bit little endian field and back as (u)int16_t
htole16(x) == x % Pow16
AsInt16(x) == IF x >= 32768 THEN x - Pow16 ELSE x

\* 64 bit quantities (file sizes, data offsets) are kept as hi * 2^20 + lo
U64(hi, lo) == [hi |-> hi, lo |-> lo]
ToU64(n) == [hi |-> n \div Pow20, lo |-> n % Pow20]

\* v > 0xFFFFFFFF
GtU32Max(v) == v.hi >= 4096

\* v / bs and v % bs for a block size bs that is a power of two up to 2^20
DivBs(v, bs) == v.hi * (Pow20 \div bs) + (v.lo \div bs)
ModBs(v, bs) == v.lo % bs

\* (uint32_t)(a - b) > 0xFFFF
Sub32Above16(a, b) == a < b \/ a - b > 65535

(* ------------------------------------------------------------------ *)
(* The filesystem tree (static part of tree_node_t)                    *)
(* ------------------------------------------------------------------ *)

\* One tree node. parent = 0 for the root. Children of a directory are the
\* nodes naming it as parent, in increasing id order (the sorted child list).
Node(kind, parent, namelen, size, startblock, target, xattr) ==
    [kind |-> kind, parent |-> parent, namelen |-> namelen, size |-> size,
     startblock |-> startblock, target |-> target, xattr |-> xattr]

DirNode(parent, namelen) == Node("dir", parent, namelen, U64(0, 0), U64(0, 0), 0, FALSE)
FileNode(parent, namelen, size, sb, xa) == Node("file", parent, namelen, size, sb, 0, xa)
OtherNode(kind, parent, namelen, target) ==
    Node(kind, parent, namelen, U64(0, 0), U64(0, 0), target, FALSE)

RootOnly == << DirNode(0, 1) >>

\* root { a/ { f, sub/ { p } }, b, c -> target, d/ { blk, sk }, e }
Mixed(fsz, sb, xa, tlen) ==
    << DirNode(0, 1),
       DirNode(1, 1),
       FileNode(1, 1, fsz, sb, FALSE),
       OtherNode("slink", 1, 1, tlen),
       DirNode(1, 1),
       FileNode(2, 1, U64(0, 10), U64(0, 96), xa),
       DirNode(2, 3),
       OtherNode("fifo", 7, 1, 0),
       OtherNode("bdev", 5, 3, 0),
       OtherNode("sock", 5, 2, 0),
       OtherNode("cdev", 1, 1, 0) >>

\* root { d/ { n children of one kind }, z }
Big(n, kind, namelen) ==
    << DirNode(0, 1), DirNode(1, 1), FileNode(1, 1, U64(0, 10), U64(0, 96), FALSE) >> \o
    [i \in 1..n |-> IF kind = "file"
                    THEN FileNode(2, namelen, U64(0, 10), U64(0, 96), FALSE)
                    ELSE OtherNode(kind, 2, namelen, 0)]

\* 0, 10, 128 KiB, 200000, 1 MiB, 2^32 - 1, 2^32, 2^32 + 1
FileSizes == {U64(0, 0), U64(0, 10), U64(0, 131072), U64(0, 200000), U64(1, 0),
              U64(4095, 1048575), U64(4096, 0), U64(4096, 1)}
\* 96, 2^32 - 1, 2^32
StartBlocks == {U64(0, 96), U64(4095, 1048575), U64(4096, 0)}
TargetLens == {1, 8000}
BigCounts == {256, 257, MaxChildren}
BigKinds == {"file", "fifo"}
NameLens == {1, MaxNameLen}

SmallTrees ==
    {RootOnly}
    \cup {Mixed(fsz, U64(0, 96), xa, tl) : fsz \in FileSizes, xa \in BOOLEAN, tl \in TargetLens}
    \cup {Mixed(U64(0, 10), sb, FALSE, 1) : sb \in StartBlocks}

BigTrees == {Big(n, k, l) : n \in BigCounts, k \in BigKinds, l \in NameLens}

BlockSizes == {131072, 1048576}
CmpModes == {"store", "half"}

\* the trees and block sizes sqfs_write_inodes is run on
Inputs ==
    {[fs |-> t, bs |-> b] : t \in SmallTrees, b \in BlockSizes}
    \cup {[fs |-> t, bs |-> 131072] : t \in BigTrees}

S_ISDIR(n) == n.kind = "dir"

\* dir->children as a list of node ids
Children(t, d) == SelectSeq([i \in 1..Len(t) |-> i], LAMBDA i : t[i].parent = d)

(* ------------------------------------------------------------------ *)
(* Meta-writer                                                         *)
(* ------------------------------------------------------------------ *)

\* size on disk of one flushed block holding len uncompressed bytes: the
\* 16 bit length header plus the compressed (or, if that is not smaller,
\* the raw) payload. The codec is a parameter of the run.
CompressedSize(mode, len) ==
    CASE mode = "store" -> len + 2
      [] mode = "half"  -> ((len + 1) \div 2) + 2
      [] OTHER          -> 3

\* offset: bytes in the current block; block_offset: location of the current
\* block in the output; total: bytes appended so far; blocks: flushed blocks
\* with their location, the stream position of their first byte, their length.
NewMetaWriter == [offset |-> 0, block_offset |-> 0, total |-> 0, blocks |-> << >>]

meta_writer_flush(m, mode) ==
    IF m.offset = 0 THEN m
    ELSE [m EXCEPT !.blocks = Append(@, [disk |-> m.block_offset,
                                         ustart |-> m.total - m.offset,
                                         ulen |-> m.offset]),
                   !.block_offset = @ + CompressedSize(mode, m.offset),
                   !.offset = 0]

RECURSIVE meta_writer_append(_, _, _)
meta_writer_append(m, size, mode) ==
    IF size = 0 THEN m
    ELSE LET diff == Min(SQFS_META_BLOCK_SIZE - m.offset, size)
             m1 == [m EXCEPT !.offset = @ + diff, !.total = @ + diff]
             m2 == IF m1.offset = SQFS_META_BLOCK_SIZE
                   THEN meta_writer_flush(m1, mode) ELSE m1
         IN  meta_writer_append(m2, size - diff, mode)

\* A reference (block location << 16) | offset, kept as its two fields
MkRef(block, offset) == [block |-> block + (offset \div Pow16), offset |-> offset % Pow16]
NullRef == MkRef(0, 0)

\* the stream position a reference designates
\* once the stream is flushed; -1 if it designates no byte of the stream
RECURSIVE ResolveFrom(_, _, _)
ResolveFrom(blocks, ref, i) ==
    IF i > Len(blocks) THEN -1
    ELSE IF blocks[i].disk = ref.block
         THEN IF ref.offset < blocks[i].ulen
              THEN blocks[i].ustart + ref.offset ELSE -1
         ELSE ResolveFrom(blocks, ref, i + 1)

Resolve(m, ref) == ResolveFrom(m.blocks, ref, 1)

(* ------------------------------------------------------------------ *)
(* write_dir                                                           *)
(* ------------------------------------------------------------------ *)

\* the inner for loop: children from position d on that share the block of
\* the child at position c and are no more than 0xFFFF inode numbers away
\* variant: only the inode number distance ends a run
RunBreaksNoBlock(ch, n, c, d) ==
    Sub32Above16(n[ch[d]].inode_num, n[ch[c]].inode_num)

RunBreaks(ch, n, c, d) ==
    \/ n[ch[d]].inode_ref.block # n[ch[c]].inode_ref.block
    \/ Sub32Above16(n[ch[d]].inode_num, n[ch[c]].inode_num)

RunLen(ch, n, c) ==
    LET stops == {d \in c..Len(ch) : RunBreaks(ch, n, c, d)}
    IN  IF stops = {} THEN Len(ch) - c + 1
        ELSE (CHOOSE d \in stops : \A e \in stops : d <= e) - c

\* variant: the run length is not capped
HeaderCountNoCap(ch, n, c) == RunLen(ch, n, c)

HeaderCount(ch, n, c) ==
    LET count == RunLen(ch, n, c)
    IN  IF count > SQFS_MAX_DIR_ENT THEN SQFS_MAX_DIR_ENT ELSE count

\* variant: the size field holds the name length itself
DirEntryFullSize(t, n, ch, c, d) ==
    [offset       |-> htole16(n[ch[c]].inode_ref.offset),
     inode_number |-> htole16(n[ch[c]].inode_num - n[ch[d]].inode_num),
     type         |-> n[ch[c]].type,
     size         |-> htole16(t[ch[c]].namelen),
     name_bytes   |-> t[ch[c]].namelen,
     child        |-> ch[c]]

\* one directory entry; d is the position of the header's first child
DirEntry(t, n, ch, c, d) ==
    [offset       |-> htole16(n[ch[c]].inode_ref.offset),
     inode_number |-> htole16(n[ch[c]].inode_num - n[ch[d]].inode_num),
     type         |-> n[ch[c]].type,
     size         |-> htole16(t[ch[c]].namelen - 1),
     name_bytes   |-> t[ch[c]].namelen,
     child        |-> ch[c]]

\* the headers of one listing, each with the entries that follow it
RECURSIVE DirHeaders(_, _, _, _)
DirHeaders(t, n, ch, c) ==
    IF c > Len(ch) THEN << >>
    ELSE LET count == HeaderCount(ch, n, c)
         IN  << [count        |-> count - 1,
                 start_block  |-> n[ch[c]].inode_ref.block,
                 inode_number |-> n[ch[c]].inode_num,
                 entries      |-> [i \in 1..count |-> DirEntry(t, n, ch, c + i - 1, c)]] >>
             \o DirHeaders(t, n, ch, c + count)

\* dir->size += sizeof(ent) + strlen(c->name), over the entries lo..hi
RECURSIVE EntriesSize(_, _, _)
EntriesSize(e, lo, hi) ==
    IF lo > hi THEN 0
    ELSE IF lo = hi THEN DIR_ENTRY_SIZE + e[lo].name_bytes
    ELSE LET mid == (lo + hi) \div 2
         IN  EntriesSize(e, lo, mid) + EntriesSize(e, mid + 1, hi)

RECURSIVE ListingSize(_, _)
ListingSize(hs, i) ==
    IF i > Len(hs) THEN 0
    ELSE DIR_HEADER_SIZE + EntriesSize(hs[i].entries, 1, Len(hs[i].entries))
         + ListingSize(hs, i + 1)

\* result of write_dir on directory node d: the advanced directory writer
\* and the fields recorded in dir_info_t
write_dir(t, n, dmw, d, mode) ==
    LET hs == DirHeaders(t, n, Children(t, d), 1)
        sz == ListingSize(hs, 1)
    IN  [dm          |-> meta_writer_append(dmw, sz, mode),
         start_block |-> dmw.block_offset,
         block_offset |-> dmw.offset,
         size        |-> sz,
         listing     |-> hs]

(* ------------------------------------------------------------------ *)
(* write_inode                                                         *)
(* ------------------------------------------------------------------ *)

hard_link_count(t, x) ==
    IF S_ISDIR(t[x]) THEN 2 + Len(Children(t, x)) ELSE 1

\* variant: the reference is taken after the common inode part went out
InodeRefLate(m) == MkRef(m.block_offset, m.offset + INODE_BASE_SIZE)

\* variant: the offset inside the block is left out of the reference
InodeRefBlockOnly(m) == MkRef(m.block_offset, 0)

\* the reference captured before the inode is appended
InodeRef(m) == MkRef(m.block_offset, m.offset)

\* the first switch: inode type from the mode, promoted to the extended form
DirInodeType(start_block, size) ==
    IF GtU32Max(ToU64(start_block)) \/ size > 65535 THEN "EXT_DIR" ELSE "DIR"

FileInodeType(t, x) ==
    IF GtU32Max(t[x].startblock) \/ GtU32Max(t[x].size)
       \/ hard_link_count(t, x) > 1
    THEN "EXT_FILE" ELSE "FILE"

InodeType(t, x, wd) ==
    CASE t[x].kind = "sock"  -> "SOCKET"
      [] t[x].kind = "fifo"  -> "FIFO"
      [] t[x].kind = "slink" -> "SLINK"
      [] t[x].kind = "bdev"  -> "BDEV"
      [] t[x].kind = "cdev"  -> "CDEV"
      [] t[x].kind = "dir"   -> DirInodeType(wd.start_block, wd.size)
      [] t[x].kind = "file"  -> FileInodeType(t, x)

\* variant: a partial last block gets an entry of its own
NumBlockEntriesRoundUp(size, bs) ==
    DivBs(size, bs) + (IF ModBs(size, bs) # 0 THEN 1 ELSE 0)

\* out_file_blocks: number of block size entries that follow a file inode
NumBlockEntries(size, bs) == DivBs(size, bs)

\* bytes appended to the inode stream for one node
InodeRecordSize(t, x, type, bs) ==
    INODE_BASE_SIZE +
    CASE type \in {"FIFO", "SOCKET"} -> INODE_IPC_SIZE
      [] type = "SLINK"    -> INODE_SLINK_SIZE + t[x].target
      [] type \in {"BDEV", "CDEV"} -> INODE_DEV_SIZE
      [] type = "EXT_FILE" -> INODE_FILE_EXT_SIZE + 4 * NumBlockEntries(t[x].size, bs)
      [] type = "FILE"     -> INODE_FILE_SIZE + 4 * NumBlockEntries(t[x].size, bs)
      [] type = "DIR"      -> INODE_DIR_SIZE
      [] type = "EXT_DIR"  -> INODE_DIR_EXT_SIZE

\* fragment tail recorded on a file by the data writer: the bytes of the file
\* past its last full block live in a fragment
FragmentTailLen(size, bs) == ModBs(size, bs)

(* ------------------------------------------------------------------ *)
(* write_child_inodes: the order of the write_inode calls              *)
(* ------------------------------------------------------------------ *)

RECURSIVE write_child_inodes(_, _)
RECURSIVE SubdirsFrom(_, _, _)
RECURSIVE write_child_inodes_depth_first(_, _)
RECURSIVE DepthFirstFrom(_, _, _)

\* variant: the children that are no directories first, then every
\* subdirectory's subtree with the subdirectory right behind it
DepthFirstFrom(t, dirs, i) ==
    IF i > Len(dirs) THEN << >>
    ELSE write_child_inodes_depth_first(t, dirs[i]) \o << dirs[i] >>
           \o DepthFirstFrom(t, dirs, i + 1)

write_child_inodes_depth_first(t, root) ==
    LET ch == Children(t, root)
    IN  SelectSeq(ch, LAMBDA c : ~S_ISDIR(t[c]))
          \o DepthFirstFrom(t, SelectSeq(ch, LAMBDA c : S_ISDIR(t[c])), 1)

\* the second loop: recurse into every child that is a directory
SubdirsFrom(t, dirs, i) ==
    IF i > Len(dirs) THEN << >>
    ELSE write_child_inodes(t, dirs[i]) \o SubdirsFrom(t, dirs, i + 1)

write_child_inodes(t, root) ==
    LET ch == Children(t, root)
        has_subdirs == \E i \in 1..Len(ch) : S_ISDIR(t[ch[i]])
        dirs == SelectSeq(ch, LAMBDA c : S_ISDIR(t[c]))
    IN  (IF has_subdirs THEN SubdirsFrom(t, dirs, 1) ELSE << >>) \o ch

\* variant: the root is written before its children
WriteOrderRootFirst(t) == << 1 >> \o write_child_inodes(t, 1)

\* sqfs_write_inodes: the children of the root, then the root
WriteOrder(t) == write_child_inodes(t, 1) \o << 1 >>

(* ------------------------------------------------------------------ *)
(* State                                                               *)
(* ------------------------------------------------------------------ *)

VARIABLES
    fs,            \* the tree (static fields of the nodes)
    block_size,    \* info->super.block_size
    cmp,           \* info->cmp, the codec
    nd,            \* fields of the nodes set by the serializer
    im,            \* inode meta-writer (writes to the image)
    dm,            \* directory meta-writer (writes to the temporary file)
    image,         \* the image file: segments [kind, len] in file order
    tmpfile,       \* the temporary file: [len, pos]
    super,         \* info->super
    inode_counter, \* info->inode_counter
    queue,         \* write_inode calls still to be made
    irecs,         \* nodes in the order their records entered the inode stream
    pc,            \* position in sqfs_write_inodes
    res,           \* how often each resource was acquired and released
    ret,           \* return value of sqfs_write_inodes: 0 success, -1 failure
    prev_used      \* super.bytes_used when sqfs_write_inodes was called

\* The other programs of the repository, each with its own specification.
\* While one of them runs the others are off.
VARIABLES
    wr,            \* write_retry (tar library)
    opt,           \* process_command_line (mkfs)
    tar,           \* read_header (tar library)
    dump,          \* sqfs_data_reader_dump and append_block
    bp,            \* the block processor
    rd             \* main of rdsquashfs

restVars == << wr, opt, tar, dump, bp, rd >>

Off == [pc |-> "off"]

vars == << fs, block_size, cmp, nd, im, dm, image, tmpfile, super,
           inode_counter, queue, irecs, pc, res, ret, prev_used, restVars >>

NodeState0 ==
    [inode_ref |-> NullRef, inode_num |-> 0, type |-> "NONE", written |-> 0,
     dir_start_block |-> 0, dir_block_offset |-> 0, dir_size |-> 0,
     listing |-> << >>, listed |-> FALSE, kids_ready |-> TRUE,
     nblk |-> 0, parent_inode |-> 0, recpos |-> -1, reclen |-> 0]

AddSeg(img, kind, len) ==
    IF len = 0 THEN img
    ELSE IF img # << >> /\ img[Len(img)].kind = kind
         THEN [img EXCEPT ![Len(img)].len = @ + len]
         ELSE Append(img, [kind |-> kind, len |-> len])

Init ==
    /\ \E in \in Inputs : fs = in.fs /\ block_size = in.bs
    /\ cmp \in CmpModes
    /\ nd = [x \in 1..Len(fs) |-> NodeState0]
    /\ im = NewMetaWriter
    /\ dm = NewMetaWriter
    /\ prev_used \in {96, 131168}
    /\ image = << [kind |-> "data", len |-> prev_used] >>
    /\ tmpfile = [len |-> 0, pos |-> 0]
    /\ super = [inode_count |-> 0, bytes_used |-> prev_used,
                inode_table_start |-> 0, directory_table_start |-> 0,
                root_inode_ref |-> NullRef]
    /\ inode_counter = 0
    /\ queue = << >>
    /\ irecs = << >>
    /\ pc = "tmpfile"
    /\ res = [tmp_open |-> 0, tmp_close |-> 0, im_create |-> 0,
              im_destroy |-> 0, dm_create |-> 0, dm_destroy |-> 0]
    /\ ret = "none"
    /\ wr = Off /\ opt = Off /\ tar = Off /\ dump = Off /\ bp = Off /\ rd = Off

\* the serializer is not running
SerializerOff ==
    /\ fs = RootOnly
    /\ block_size = 131072
    /\ cmp = "store"
    /\ nd = [x \in 1..Len(fs) |-> NodeState0]
    /\ im = NewMetaWriter
    /\ dm = NewMetaWriter
    /\ prev_used = 96
    /\ image = << >>
    /\ tmpfile = [len |-> 0, pos |-> 0]
    /\ super = [inode_count |-> 0, bytes_used |-> 96,
                inode_table_start |-> 0, directory_table_start |-> 0,
                root_inode_ref |-> NullRef]
    /\ inode_counter = 0
    /\ queue = << >>
    /\ irecs = << >>
    /\ pc = "off"
    /\ res = [tmp_open |-> 0, tmp_close |-> 0, im_create |-> 0,
              im_destroy |-> 0, dm_create |-> 0, dm_destroy |-> 0]
    /\ ret = "none"

serVars == << fs, block_size, cmp, nd, im, dm, image, tmpfile, super,
             inode_counter, queue, irecs, pc, res, ret, prev_used >>

(* ------------------------------------------------------------------ *)
(* sqfs_write_inodes, step by step                                     *)
(* ------------------------------------------------------------------ *)

\* variant: the early exits return without closing the temporary file
CleanupLeak(dmd, imd, r) ==
    /\ res' = [res EXCEPT !.dm_destroy = @ + dmd, !.im_destroy = @ + imd,
                          !.tmp_close = @ + dmd]
    /\ ret' = r
    /\ pc' = "done"

\* the exit labels: fail, fail_im, fail_tmp and the success path
Cleanup(dmd, imd, r) ==
    /\ res' = [res EXCEPT !.dm_destroy = @ + dmd, !.im_destroy = @ + imd,
                          !.tmp_close = @ + 1]
    /\ ret' = r
    /\ pc' = "done"

TmpfileOk ==
    /\ pc = "tmpfile"
    /\ res' = [res EXCEPT !.tmp_open = @ + 1]
    /\ pc' = "create_im"
    /\ UNCHANGED << fs, block_size, cmp, nd, im, dm, image, tmpfile, super,
                    inode_counter, queue, irecs, ret, prev_used, restVars >>

TmpfileFail ==
    /\ pc = "tmpfile"
    /\ ret' = "failure"
    /\ pc' = "done"
    /\ UNCHANGED << fs, block_size, cmp, nd, im, dm, image, tmpfile, super,
                    inode_counter, queue, irecs, res, prev_used, restVars >>

CreateImOk ==
    /\ pc = "create_im"
    /\ im' = NewMetaWriter
    /\ res' = [res EXCEPT !.im_create = @ + 1]
    /\ pc' = "create_dm"
    /\ UNCHANGED << fs, block_size, cmp, nd, dm, image, tmpfile, super,
                    inode_counter, queue, irecs, ret, prev_used, restVars >>

CreateImFail ==
    /\ pc = "create_im"
    /\ Cleanup(0, 0, "failure")
    /\ UNCHANGED << fs, block_size, cmp, nd, im, dm, image, tmpfile, super,
                    inode_counter, queue, irecs, prev_used, restVars >>

CreateDmOk ==
    /\ pc = "create_dm"
    /\ dm' = NewMetaWriter
    /\ res' = [res EXCEPT !.dm_create = @ + 1]
    /\ inode_counter' = 2
    /\ queue' = WriteOrder(fs)
    /\ pc' = "walk"
    /\ UNCHANGED << fs, block_size, cmp, nd, im, image, tmpfile, super,
                    irecs, ret, prev_used, restVars >>

CreateDmFail ==
    /\ pc = "create_dm"
    /\ Cleanup(0, 1, "failure")
    /\ UNCHANGED << fs, block_size, cmp, nd, im, dm, image, tmpfile, super,
                    inode_counter, queue, irecs, prev_used, restVars >>

\* variant: directories are not counted
CountInodeSkipDirs(sb, t, x) ==
    IF S_ISDIR(t[x]) THEN sb ELSE [sb EXCEPT !.inode_count = @ + 1]

\* info->super.inode_count += 1
CountInode(sb, t, x) == [sb EXCEPT !.inode_count = @ + 1]

\* one successful call of write_inode on the next node of the walk
WriteInode ==
    /\ pc = "walk"
    /\ queue # << >>
    /\ LET x    == Head(queue)
           ch   == Children(fs, x)
           n1   == [nd EXCEPT ![x].inode_ref = InodeRef(im),
                              ![x].inode_num = inode_counter]
           wd   == IF S_ISDIR(fs[x]) THEN write_dir(fs, n1, dm, x, cmp)
                   ELSE [dm |-> dm, start_block |-> 0, block_offset |-> 0,
                         size |-> 0, listing |-> << >>]
           type == InodeType(fs, x, wd)
           len  == InodeRecordSize(fs, x, type, block_size)
           im2  == meta_writer_append(im, len, cmp)
       IN  /\ nd' = [n1 EXCEPT
                       ![x].type = type,
                       ![x].written = @ + 1,
                       ![x].dir_start_block = wd.start_block,
                       ![x].dir_block_offset = wd.block_offset,
                       ![x].dir_size = wd.size,
                       ![x].listing = wd.listing,
                       ![x].listed = S_ISDIR(fs[x]),
                       ![x].kids_ready = \A i \in 1..Len(ch) : nd[ch[i]].written > 0,
                       ![x].nblk = IF type \in {"FILE", "EXT_FILE"}
                                   THEN NumBlockEntries(fs[x].size, block_size) ELSE 0,
                       ![x].parent_inode =
                            IF type \in {"DIR", "EXT_DIR"}
                            THEN (IF fs[x].parent # 0
                                  THEN nd[fs[x].parent].inode_num
                                  ELSE 1)
                            ELSE 0,
                       ![x].recpos = im.total,
                       ![x].reclen = len]
           /\ im' = im2
           /\ dm' = wd.dm
           /\ image' = AddSeg(image, "inode", im2.block_offset - im.block_offset)
           /\ tmpfile' = [len |-> tmpfile.len + (wd.dm.block_offset - dm.block_offset),
                          pos |-> tmpfile.pos + (wd.dm.block_offset - dm.block_offset)]
           /\ irecs' = Append(irecs, x)
    /\ inode_counter' = inode_counter + 1
    /\ super' = CountInode(super, fs, Head(queue))
    /\ queue' = Tail(queue)
    /\ UNCHANGED << fs, block_size, cmp, pc, res, ret, prev_used, restVars >>

\* write_inode returns -1: the id table lookup fails before anything is
\* assigned (early), or an append to a meta-writer fails after the node got
\* its reference and number
WriteInodeFail ==
    /\ pc = "walk"
    /\ queue # << >>
    /\ \E early \in BOOLEAN :
         IF early
         THEN UNCHANGED << nd, inode_counter, super >>
         ELSE /\ nd' = [nd EXCEPT ![Head(queue)].inode_ref = InodeRef(im),
                                  ![Head(queue)].inode_num = inode_counter]
              /\ inode_counter' = inode_counter + 1
              /\ super' = CountInode(super, fs, Head(queue))
    /\ Cleanup(1, 1, "failure")
    /\ UNCHANGED << fs, block_size, cmp, im, dm, image, tmpfile, queue,
                    irecs, prev_used, restVars >>

FlushIm ==
    /\ pc = "walk"
    /\ queue = << >>
    /\ im' = meta_writer_flush(im, cmp)
    /\ image' = AddSeg(image, "inode", im'.block_offset - im.block_offset)
    /\ pc' = "flush_dm"
    /\ UNCHANGED << fs, block_size, cmp, nd, dm, tmpfile, super,
                    inode_counter, queue, irecs, res, ret, prev_used, restVars >>

FlushImFail ==
    /\ pc = "walk"
    /\ queue = << >>
    /\ Cleanup(1, 1, "failure")
    /\ UNCHANGED << fs, block_size, cmp, nd, im, dm, image, tmpfile, super,
                    inode_counter, queue, irecs, prev_used, restVars >>

FlushDm ==
    /\ pc = "flush_dm"
    /\ dm' = meta_writer_flush(dm, cmp)
    /\ tmpfile' = [len |-> tmpfile.len + (dm'.block_offset - dm.block_offset),
                   pos |-> tmpfile.pos + (dm'.block_offset - dm.block_offset)]
    /\ pc' = "layout"
    /\ UNCHANGED << fs, block_size, cmp, nd, im, image, super,
                    inode_counter, queue, irecs, res, ret, prev_used, restVars >>

FlushDmFail ==
    /\ pc = "flush_dm"
    /\ Cleanup(1, 1, "failure")
    /\ UNCHANGED << fs, block_size, cmp, nd, im, dm, image, tmpfile, super,
                    inode_counter, queue, irecs, prev_used, restVars >>

\* variant: the directory table is placed where the inode table starts
LayoutNoInodeTable(sb, root_ref, imlen, dmlen) ==
    [sb EXCEPT !.root_inode_ref = root_ref,
               !.inode_table_start = sb.bytes_used,
               !.directory_table_start = sb.bytes_used,
               !.bytes_used = sb.bytes_used + imlen + dmlen]

\* the super block fields set between the flushes and the copy
Layout(sb, root_ref, imlen, dmlen) ==
    [sb EXCEPT !.root_inode_ref = root_ref,
               !.inode_table_start = sb.bytes_used,
               !.directory_table_start = sb.bytes_used + imlen,
               !.bytes_used = sb.bytes_used + imlen + dmlen]

SetLayout ==
    /\ pc = "layout"
    /\ super' = Layout(super, nd[1].inode_ref, im.block_offset, dm.block_offset)
    /\ tmpfile' = [tmpfile EXCEPT !.pos = 0]
    /\ pc' = "copy"
    /\ UNCHANGED << fs, block_size, cmp, nd, im, dm, image,
                    inode_counter, queue, irecs, res, ret, prev_used, restVars >>

\* lseek on the temporary file fails
SeekFail ==
    /\ pc = "layout"
    /\ super' = Layout(super, nd[1].inode_ref, im.block_offset, dm.block_offset)
    /\ Cleanup(1, 1, "failure")
    /\ UNCHANGED << fs, block_size, cmp, nd, im, dm, image, tmpfile,
                    inode_counter, queue, irecs, prev_used, restVars >>

\* bytes one read_retry into dm->data delivers
CopyChunkSize == Min(tmpfile.len - tmpfile.pos, SQFS_META_BLOCK_SIZE + 2)

\* one iteration of the copy loop: a chunk is read and written completely
CopyChunk ==
    /\ pc = "copy"
    /\ tmpfile.pos < tmpfile.len
    /\ image' = AddSeg(image, "dir", CopyChunkSize)
    /\ tmpfile' = [tmpfile EXCEPT !.pos = @ + CopyChunkSize]
    /\ UNCHANGED << fs, block_size, cmp, nd, im, dm, super,
                    inode_counter, queue, irecs, pc, res, ret, prev_used, restVars >>

\* read_retry returns a negative value
CopyReadFail ==
    /\ pc = "copy"
    /\ Cleanup(1, 1, "failure")
    /\ UNCHANGED << fs, block_size, cmp, nd, im, dm, image, tmpfile, super,
                    inode_counter, queue, irecs, prev_used, restVars >>

\* write_retry returns a negative value or less than the chunk
CopyWriteFail ==
    /\ pc = "copy"
    /\ tmpfile.pos < tmpfile.len
    /\ \E k \in {0, CopyChunkSize - 1} :
         /\ image' = AddSeg(image, "dir", k)
         /\ tmpfile' = [tmpfile EXCEPT !.pos = @ + CopyChunkSize]
    /\ Cleanup(1, 1, "failure")
    /\ UNCHANGED << fs, block_size, cmp, nd, im, dm, super,
                    inode_counter, queue, irecs, prev_used, restVars >>

\* read_retry returns 0: end of the temporary file, success
CopyDone ==
    /\ pc = "copy"
    /\ tmpfile.pos = tmpfile.len
    /\ Cleanup(1, 1, "success")
    /\ UNCHANGED << fs, block_size, cmp, nd, im, dm, image, tmpfile, super,
                    inode_counter, queue, irecs, prev_used, restVars >>

Next ==
    \/ TmpfileOk \/ TmpfileFail
    \/ CreateImOk \/ CreateImFail
    \/ CreateDmOk \/ CreateDmFail
    \/ WriteInode \/ WriteInodeFail
    \/ FlushIm \/ FlushImFail
    \/ FlushDm \/ FlushDmFail
    \/ SetLayout \/ SeekFail
    \/ CopyChunk \/ CopyReadFail \/ CopyWriteFail \/ CopyDone

Spec == Init /\ [][Next]_vars

Succeeded == pc = "done" /\ ret = "success"

(* ------------------------------------------------------------------ *)
(* Properties                                                          *)
(* ------------------------------------------------------------------ *)

Nodes == 1..Len(fs)
ListedDirs == {x \in Nodes : nd[x].listed}
Written(x) == nd[x].written > 0

\* the children named by the entries of a listing, in stream order
RECURSIVE ListedChildren(_, _)
ListedChildren(hs, i) ==
    IF i > Len(hs) THEN << >>
    ELSE [k \in 1..Len(hs[i].entries) |-> hs[i].entries[k].child]
         \o ListedChildren(hs, i + 1)

RECURSIVE StoredCounts(_, _)
StoredCounts(hs, i) ==
    IF i > Len(hs) THEN 0 ELSE (hs[i].count + 1) + StoredCounts(hs, i + 1)

\* C1: every directory header covers between 1 and 256 children that all
\* share the header's start_block, which is that of the header's first
\* child, so a header ends where the start_block changes; every stored
\* inode number difference, read as a signed 16 bit value, is the real
\* difference to the header's inode number.
C1_HeadersCoverOneBlock ==
    \A x \in ListedDirs :
      \A i \in 1..Len(nd[x].listing) :
        LET h == nd[x].listing[i]
        IN  /\ Len(h.entries) >= 1
            /\ Len(h.entries) <= SQFS_MAX_DIR_ENT
            /\ h.count + 1 = Len(h.entries)
            /\ h.start_block = nd[h.entries[1].child].inode_ref.block
            /\ h.inode_number = nd[h.entries[1].child].inode_num
            /\ \A k \in 1..Len(h.entries) :
                 LET e == h.entries[k]
                 IN  /\ nd[e.child].inode_ref.block = h.start_block
                     /\ nd[e.child].inode_num - h.inode_number \in -32768..32767
                     /\ AsInt16(e.inode_number) = nd[e.child].inode_num - h.inode_number

\* a listing whose children lie in two meta data blocks got two headers
C1_Witness ==
    \E x \in ListedDirs :
      /\ Len(nd[x].listing) >= 2
      /\ nd[x].listing[1].start_block # nd[x].listing[2].start_block
      /\ Len(nd[x].listing[1].entries) > 1

\* C2: after sqfs_write_inodes succeeds the root directory has inode number 1
\* and the root's inode record is the last one of the inode stream.
C2_RootIsNumberOne ==
    Succeeded => /\ nd[1].inode_num = 1
                 /\ irecs # << >>
                 /\ irecs[Len(irecs)] = 1

\* C3: every node's inode is written at most once, and exactly once when the
\* call succeeds; when a directory's listing is emitted and its inode is
\* written all its children had their inode written, so the directory's
\* inode number is greater than that of each child.
C3_ChildrenBeforeParents ==
    /\ \A x \in Nodes : nd[x].written <= 1
    /\ Succeeded => \A x \in Nodes : nd[x].written = 1
    /\ \A x \in Nodes : Written(x) => nd[x].kids_ready
    /\ \A c \in Nodes :
         (fs[c].parent # 0 /\ Written(fs[c].parent)) =>
            /\ Written(c)
            /\ nd[c].inode_num < nd[fs[c].parent].inode_num

\* a directory with a subdirectory that has children of its own was written
C3_Witness ==
    \E z \in Nodes :
      /\ fs[z].parent # 0
      /\ fs[fs[z].parent].parent # 0
      /\ Written(z) /\ Written(fs[z].parent) /\ Written(fs[fs[z].parent].parent)

IsExtended(type) == type \in {"EXT_FILE", "EXT_DIR"}

\* the condition under which a field of node x does not fit the narrow form
ExceedsNarrow(x) ==
    \/ /\ fs[x].kind = "file"
       /\ \/ GtU32Max(fs[x].size)
          \/ GtU32Max(fs[x].startblock)
          \/ hard_link_count(fs, x) > 1
    \/ /\ fs[x].kind = "dir"
       /\ \/ nd[x].dir_size > 65535
          \/ GtU32Max(ToU64(nd[x].dir_start_block))
    \/ fs[x].xattr

\* C4: write_inode uses the extended inode form if and only if a field
\* exceeds the range of the narrow form (file: size, start block or link
\* count; directory: listing size or start block) or the node has an xattr id.
C4_ExtendedIffExceeds ==
    \A x \in Nodes : Written(x) => (IsExtended(nd[x].type) <=> ExceedsNarrow(x))

\* the inode stream is completely flushed
InodesFlushed == pc \in {"flush_dm", "layout", "copy"} \/ Succeeded

\* C5: the inode_ref captured for a node designates, in the flushed inode
\* stream, the position at which the first byte of the node's inode record
\* was appended.
C5_RefDesignatesRecord ==
    InodesFlushed =>
      \A x \in Nodes : Written(x) => Resolve(im, nd[x].inode_ref) = nd[x].recpos

\* a record starts a block because the append before it filled the previous
\* block and flushed it, and another record starts in the middle of a block
C5_Witness ==
    /\ InodesFlushed
    /\ \E x \in Nodes : /\ Written(x)
                        /\ nd[x].inode_ref.block > 0
                        /\ nd[x].inode_ref.offset = 0
                        /\ nd[x].recpos % SQFS_META_BLOCK_SIZE = 0
    /\ \E x \in Nodes : Written(x) /\ nd[x].inode_ref.offset > 0

\* C6: write_dir emits every child exactly once in child list order, the
\* stored counts plus one add up to the number of children, more than 256
\* children take at least two headers, an empty directory gets no header and
\* size 0.
C6_EveryChildOnce ==
    \A x \in ListedDirs :
      LET ch == Children(fs, x)
      IN  /\ ListedChildren(nd[x].listing, 1) = ch
          /\ StoredCounts(nd[x].listing, 1) = Len(ch)
          /\ Len(ch) > SQFS_MAX_DIR_ENT => Len(nd[x].listing) >= 2
          /\ Len(ch) = 0 => (nd[x].listing = << >> /\ nd[x].dir_size = 0)

\* a directory with more than 256 children, all in one meta data block
C6_Witness ==
    \E x \in ListedDirs :
      /\ Len(Children(fs, x)) > SQFS_MAX_DIR_ENT
      /\ Len(nd[x].listing) >= 2
      /\ nd[x].listing[1].start_block = nd[x].listing[2].start_block

\* C7: each directory entry stores the difference between its inode number
\* and the header's inode_number as 16 bit delta, the low 16 bits of the
\* child's inode_ref as offset, name length - 1 as size, and is followed by
\* name length bytes.
C7_EntryFields ==
    \A x \in ListedDirs :
      \A i \in 1..Len(nd[x].listing) :
        \A k \in 1..Len(nd[x].listing[i].entries) :
          LET h == nd[x].listing[i]
              e == h.entries[k]
          IN  /\ AsInt16(e.inode_number) = nd[e.child].inode_num - h.inode_number
              /\ e.offset = nd[e.child].inode_ref.offset
              /\ e.size = fs[e.child].namelen - 1
              /\ e.name_bytes = fs[e.child].namelen
              /\ e.type = nd[e.child].type

\* an entry that is not the first of its header, with a name of several bytes
C7_Witness ==
    \E x \in ListedDirs :
      \E i \in 1..Len(nd[x].listing) :
        \E k \in 1..Len(nd[x].listing[i].entries) :
          /\ nd[x].listing[i].entries[k].inode_number > 0
          /\ nd[x].listing[i].entries[k].size > 0
          /\ nd[x].listing[i].entries[k].offset > 0

\* n * bs as a 64 bit quantity, and the order of 64 bit quantities
MulBs(n, bs) == U64(n \div (Pow20 \div bs), (n % (Pow20 \div bs)) * bs)
LessU64(a, b) == a.hi < b.hi \/ (a.hi = b.hi /\ a.lo < b.lo)

\* size minus the fragment tail of the file
SizeWithoutTail(x) ==
    U64(fs[x].size.hi, fs[x].size.lo - FragmentTailLen(fs[x].size, block_size))

\* C8: the number of block size entries after a file's inode is
\* ceil((size - tail_len) / block_size): the entries cover size - tail_len
\* and one entry less would not; a file of exactly block_size bytes has one.
C8_BlockEntries ==
    \A x \in Nodes :
      (Written(x) /\ fs[x].kind = "file") =>
         /\ ~ LessU64(MulBs(nd[x].nblk, block_size), SizeWithoutTail(x))
         /\ nd[x].nblk > 0 =>
              LessU64(MulBs(nd[x].nblk - 1, block_size), SizeWithoutTail(x))
         /\ fs[x].size = ToU64(block_size) => nd[x].nblk = 1

\* a file of exactly one block, and a file with blocks and a fragment tail
C8_Witness ==
    /\ \E x \in Nodes : /\ Written(x) /\ fs[x].kind = "file"
                        /\ fs[x].size = ToU64(block_size)
                        /\ nd[x].nblk = 1
    /\ \E x \in Nodes : /\ Written(x) /\ fs[x].kind = "file"
                        /\ FragmentTailLen(fs[x].size, block_size) > 0

\* C9: inode_count is the number of inodes written so far, and the number of
\* nodes of the tree once sqfs_write_inodes has succeeded.
C9_InodeCount ==
    /\ ret = "none" => super.inode_count = Len(irecs)
    /\ Succeeded => super.inode_count = Len(fs)

C9_Witness == Succeeded /\ Len(fs) > 1 /\ super.inode_count = Len(fs)

SegLen(kind) ==
    LET hit == {i \in 1..Len(image) : image[i].kind = kind}
    IN  IF hit = {} THEN 0 ELSE image[CHOOSE i \in hit : TRUE].len

\* C10: directory bytes enter the image only after the whole tree is
\* serialized and both meta-writers are flushed, so they follow all inode
\* bytes; on success the three table positions and root_inode_ref are as
\* the layout of the image.
C10_DirectoriesAfterInodes ==
    /\ (\E i \in 1..Len(image) : image[i].kind = "dir") =>
          /\ queue = << >>
          /\ pc \in {"copy", "done"}
          /\ im.offset = 0 /\ dm.offset = 0
          /\ \A x \in Nodes : Written(x)
    /\ \A i, j \in 1..Len(image) :
          (image[i].kind = "dir" /\ image[j].kind = "inode") => j < i
    /\ Succeeded =>
          /\ super.inode_table_start = prev_used
          /\ super.directory_table_start = prev_used + SegLen("inode")
          /\ super.bytes_used = prev_used + SegLen("inode") + SegLen("dir")
          /\ super.root_inode_ref = nd[1].inode_ref

C10_Witness ==
    /\ Succeeded
    /\ SegLen("inode") > SQFS_META_BLOCK_SIZE
    /\ SegLen("dir") > SQFS_META_BLOCK_SIZE

RefLess(a, b) == a.block < b.block \/ (a.block = b.block /\ a.offset < b.offset)

\* C11: the inode stream cursor is strictly increasing: of two inodes written
\* one after the other the first has the smaller inode_ref and the smaller
\* inode number (so, the order being transitive, inode_ref is strictly
\* increasing in writing order and in inode_num).
C11_CursorIncreasing ==
    \A i \in 1..(Len(irecs) - 1) :
      /\ RefLess(nd[irecs[i]].inode_ref, nd[irecs[i + 1]].inode_ref)
      /\ nd[irecs[i]].inode_num < nd[irecs[i + 1]].inode_num

\* a later inode lies in a later block at a smaller offset, another pair of
\* inodes lies in one block
C11_Witness ==
    /\ \E i \in 1..(Len(irecs) - 1) :
         /\ nd[irecs[i]].inode_ref.block < nd[irecs[i + 1]].inode_ref.block
         /\ nd[irecs[i]].inode_ref.offset > nd[irecs[i + 1]].inode_ref.offset
    /\ \E i \in 1..(Len(irecs) - 1) :
         nd[irecs[i]].inode_ref.block = nd[irecs[i + 1]].inode_ref.block

\* C12: nothing is released that was not acquired or before the function
\* returns; on every return after tmpfile() succeeded the temporary file is
\* closed exactly once and every meta-writer created is destroyed exactly once.
C12_ReleasedExactlyOnce ==
    /\ res.tmp_close <= res.tmp_open
    /\ res.im_destroy <= res.im_create
    /\ res.dm_destroy <= res.dm_create
    /\ pc # "done" => (res.tmp_close = 0 /\ res.im_destroy = 0 /\ res.dm_destroy = 0)
    /\ (pc = "done" /\ res.tmp_open = 1) =>
          /\ res.tmp_close = 1
          /\ res.im_destroy = res.im_create
          /\ res.dm_destroy = res.dm_create

\* the function failed after creating the inode writer but not the
\* directory writer
C12_Witness ==
    /\ pc = "done" /\ ret = "failure"
    /\ res.tmp_open = 1 /\ res.im_create = 1 /\ res.dm_create = 0
    /\ res.tmp_close = 1 /\ res.im_destroy = 1

\* C20: the parent_inode field written into the inode of a directory is the
\* inode number its parent holds when sqfs_write_inodes has succeeded, and 1
\* for the root.
C20_ParentInodeField ==
    Succeeded =>
      \A x \in Nodes :
        S_ISDIR(fs[x]) =>
          nd[x].parent_inode = IF fs[x].parent = 0 THEN 1
                               ELSE nd[fs[x].parent].inode_num


\* C26: when write_dir runs on a directory its children carry consecutive
\* inode numbers in child list order, so the difference between a child's
\* number and an earlier sibling's lies in 0 .. number of children - 1;
\* after a successful sqfs_write_inodes no two nodes share an inode number.
C26_SiblingsConsecutive ==
    /\ \A x \in ListedDirs :
         LET ch == Children(fs, x)
         IN  \A i \in 1..Len(ch) :
               nd[ch[i]].inode_num = nd[ch[1]].inode_num + (i - 1)
    /\ Succeeded =>
         Cardinality({nd[x].inode_num : x \in Nodes}) = Len(fs)

\* the root, whose fourth child is a directory with children of its own,
\* has been listed
C26_Witness ==
    /\ Succeeded
    /\ \E x \in ListedDirs :
         LET ch == Children(fs, x)
         IN  \E i \in 2..Len(ch) :
               /\ S_ISDIR(fs[ch[i]])
               /\ Children(fs, ch[i]) # << >>
               /\ nd[ch[i]].inode_num = nd[ch[i - 1]].inode_num + 1


\* ------------------------------------------------------------------
\* write_retry of the tar library
\* ------------------------------------------------------------------

MaxWrite == 5      \* longest buffer handed to write_retry
MaxEintr == 2      \* most interrupted write() calls in one run

Bytes == {"a", "b"}

Buffers == UNION {[1..n -> Bytes] : n \in 0..MaxWrite}

EINTR == "EINTR"
EIO == "EIO"

\* what one write() call can return for a request of size bytes:
\* n > 0 bytes taken, 0, or -1 with errno set
WriteResults(size) ==
    {[n |-> k, errno |-> "none"] : k \in 0..size}
        \cup {[n |-> -1, errno |-> e] : e \in {EINTR, EIO}}

\* write_retry without "data = (const char *)data + ret"
write_retry_step_no_advance(w, r) ==
    IF r.n = 0 THEN [w EXCEPT !.pc = "done", !.ret = -1, !.last = "zero"]
    ELSE IF r.n < 0 THEN
        IF r.errno = EINTR THEN [w EXCEPT !.last = "eintr", !.eintr = @ + 1]
        ELSE [w EXCEPT !.pc = "done", !.ret = -1, !.last = "error"]
    ELSE [w EXCEPT !.fd = @ \o SubSeq(w.data, w.pos + 1, w.pos + r.n),
                   !.size = @ - r.n,
                   !.last = "written"]

\* one iteration of the loop body, given the result r of
\* write(fd, data, size); w.pos is how far data has been advanced
write_retry_step(w, r) ==
    IF r.n = 0 THEN [w EXCEPT !.pc = "done", !.ret = -1, !.last = "zero"]
    ELSE IF r.n < 0 THEN
        IF r.errno = EINTR THEN [w EXCEPT !.last = "eintr", !.eintr = @ + 1]
        ELSE [w EXCEPT !.pc = "done", !.ret = -1, !.last = "error"]
    ELSE [w EXCEPT !.fd = @ \o SubSeq(w.data, w.pos + 1, w.pos + r.n),
                   !.pos = @ + r.n,
                   !.size = @ - r.n,
                   !.last = "written"]

notWR == << fs, block_size, cmp, nd, im, dm, image, tmpfile, super,
            inode_counter, queue, irecs, pc, res, ret, prev_used,
            opt, tar, dump, bp, rd >>

\* write_retry(errstr, fd, data, size) has just been called
InitWR ==
    /\ SerializerOff
    /\ opt = Off /\ tar = Off /\ dump = Off /\ bp = Off /\ rd = Off
    /\ \E d \in Buffers :
         wr = [pc |-> "loop", data |-> d, size |-> Len(d), pos |-> 0,
               fd |-> << >>, ret |-> 0, last |-> "none", eintr |-> 0,
               before |-> [pos |-> 0, size |-> Len(d), fd |-> << >>]]

WrCall(r) ==
    wr' = [write_retry_step(wr, r) EXCEPT
             !.before = [pos |-> wr.pos, size |-> wr.size, fd |-> wr.fd]]

\* write() took some or all of the remaining bytes
WrWritten ==
    /\ wr.pc = "loop" /\ wr.size > 0
    /\ \E r \in WriteResults(wr.size) : r.n > 0 /\ WrCall(r)
    /\ UNCHANGED notWR

\* write() returned 0
WrZero ==
    /\ wr.pc = "loop" /\ wr.size > 0
    /\ \E r \in WriteResults(wr.size) : r.n = 0 /\ WrCall(r)
    /\ UNCHANGED notWR

\* write() was interrupted by a signal
WrEintr ==
    /\ wr.pc = "loop" /\ wr.size > 0
    /\ wr.eintr < MaxEintr
    /\ \E r \in WriteResults(wr.size) :
         r.n < 0 /\ r.errno = EINTR /\ WrCall(r)
    /\ UNCHANGED notWR

\* write() failed with another error
WrError ==
    /\ wr.pc = "loop" /\ wr.size > 0
    /\ \E r \in WriteResults(wr.size) :
         r.n < 0 /\ r.errno # EINTR /\ WrCall(r)
    /\ UNCHANGED notWR

\* the loop condition size > 0 is false
WrReturn ==
    /\ wr.pc = "loop" /\ wr.size = 0
    /\ wr' = [wr EXCEPT !.pc = "done", !.ret = 0]
    /\ UNCHANGED notWR

NextWR == WrWritten \/ WrZero \/ WrEintr \/ WrError \/ WrReturn

SpecWR == InitWR /\ [][NextWR]_vars

\* C13: write_retry returns 0 exactly when every byte of the buffer
\* reached the descriptor, in order; what has been written is always the
\* buffer's prefix up to the first unwritten byte, so a partial write is
\* continued from there; an interrupted write() changes nothing and the
\* loop goes on; a write() returning 0 or failing with another error
\* ends the call at once with -1.
C13_WriteRetry ==
    /\ wr.fd = SubSeq(wr.data, 1, Len(wr.fd))
    /\ wr.pc = "loop" => /\ wr.pos = Len(wr.fd)
                         /\ wr.pos + wr.size = Len(wr.data)
    /\ wr.pc = "done" => /\ wr.ret \in {0, -1}
                         /\ wr.ret = 0 <=> wr.fd = wr.data
    /\ wr.last = "written" =>
         /\ Len(wr.fd) > Len(wr.before.fd)
         /\ wr.fd = SubSeq(wr.data, 1, wr.before.pos)
                      \o SubSeq(wr.data, wr.before.pos + 1, Len(wr.fd))
    /\ wr.last = "eintr" =>
         /\ wr.pc = "loop"
         /\ wr.pos = wr.before.pos /\ wr.size = wr.before.size
         /\ wr.fd = wr.before.fd
    /\ wr.last \in {"zero", "error"} =>
         /\ wr.pc = "done" /\ wr.ret = -1
         /\ wr.fd = wr.before.fd

\* a partial write, an interrupted one, the rest of the buffer, return 0
C13_Witness ==
    /\ wr.pc = "done" /\ wr.ret = 0
    /\ Len(wr.data) = MaxWrite
    /\ wr.eintr > 0
    /\ wr.last = "written"
    /\ wr.before.pos > 0


\* ------------------------------------------------------------------
\* process_command_line of mkfs
\* ------------------------------------------------------------------

MaxArgs == 4       \* most options on one command line

\* a 32 bit field as two 16 bit halves
U32(hi, lo) == [hi |-> hi, lo |-> lo]

\* the field types num_jobs and max_backlog may have
FieldTypes == {"unsigned", "int"}

\* what strtol(optarg) leaves in a 32 bit field for the option values
\* 0, 1, 2, 3, 214748365, 2147483648 and -1
Counts == {U32(0, 0), U32(0, 1), U32(0, 2), U32(0, 3),
           U32(3276, 52429), U32(32768, 0), U32(65535, 65535)}

\* field < 1
LessThanOne(v, type) ==
    \/ v.hi = 0 /\ v.lo = 0
    \/ type = "int" /\ v.hi >= 32768

\* 10 * v for v >= 1 in exact arithmetic fits the field
TenTimesFits(v, type) ==
    10 * v.hi + (10 * v.lo) \div Pow16 < (IF type = "int" THEN 32768 ELSE Pow16)

\* 10 * v reduced to 32 bits
TenTimesWrapped(v) ==
    U32((10 * v.hi + (10 * v.lo) \div Pow16) % Pow16, (10 * v.lo) % Pow16)

\* the values 10 * opt->cfg.num_jobs can have: unsigned arithmetic
\* wraps, signed overflow is undefined
TenTimes(v, type) ==
    IF type = "unsigned" \/ TenTimesFits(v, type)
    THEN {TenTimesWrapped(v)}
    ELSE {TenTimesWrapped(v), U32(0, 0), v}

notOpt == << fs, block_size, cmp, nd, im, dm, image, tmpfile, super,
             inode_counter, queue, irecs, pc, res, ret, prev_used,
             wr, tar, dump, bp, rd >>

\* after memset and sqfs_writer_cfg_init, before the first getopt_long
InitOpt ==
    /\ SerializerOff
    /\ wr = Off /\ tar = Off /\ dump = Off /\ bp = Off /\ rd = Off
    /\ \E t \in FieldTypes, cpus \in {U32(0, 1), U32(0, 4)} :
         opt = [pc |-> "getopt", type |-> t, nargs |-> 0,
                num_jobs |-> cpus, max_backlog |-> U32(0, 0),
                comp_extra |-> "null", infile |-> FALSE, packdir |-> FALSE,
                backlog_given |-> FALSE, last |-> "none"]

MoreArgs == opt.pc = "getopt" /\ opt.nargs < MaxArgs

\* case 'j'
OptJobs ==
    /\ MoreArgs
    /\ \E v \in Counts :
         opt' = [opt EXCEPT !.num_jobs = v, !.nargs = @ + 1, !.last = "j"]
    /\ UNCHANGED notOpt

\* case 'Q'
OptBacklog ==
    /\ MoreArgs
    /\ \E v \in Counts :
         opt' = [opt EXCEPT !.max_backlog = v, !.nargs = @ + 1, !.last = "Q",
                            !.backlog_given = @ \/ ~LessThanOne(v, opt.type)]
    /\ UNCHANGED notOpt

\* case 'X'
OptCompExtra ==
    /\ MoreArgs
    /\ \E x \in {"help", "level=3"} :
         opt' = [opt EXCEPT !.comp_extra = x, !.nargs = @ + 1, !.last = "X"]
    /\ UNCHANGED notOpt

\* case 'F' and case 'D'
OptInput ==
    /\ MoreArgs
    /\ \/ opt' = [opt EXCEPT !.infile = TRUE, !.nargs = @ + 1, !.last = "F"]
       \/ opt' = [opt EXCEPT !.packdir = TRUE, !.nargs = @ + 1, !.last = "D"]
    /\ UNCHANGED notOpt

\* the options that touch none of the fields above and go on:
\* a supported -c, -b, a -B of at least 1024, -d, -k, -x, -o, -e, -f, -q, -s
OptOther ==
    /\ MoreArgs
    /\ opt' = [opt EXCEPT !.nargs = @ + 1, !.last = "other"]
    /\ UNCHANGED notOpt

\* the options that end the process: an unsupported -c, a -B below 1024,
\* an unknown option (failure), -h and -V (success)
OptExit ==
    /\ MoreArgs
    /\ \E how \in {"exit_failure", "exit_success"} :
         opt' = [opt EXCEPT !.pc = how, !.nargs = @ + 1, !.last = "exit"]
    /\ UNCHANGED notOpt

\* getopt_long returned -1: the defaults and the checks after the loop
OptFinish ==
    /\ opt.pc = "getopt"
    /\ LET nj == IF LessThanOne(opt.num_jobs, opt.type)
                 THEN U32(0, 1) ELSE opt.num_jobs
       IN \E mb \in IF LessThanOne(opt.max_backlog, opt.type)
                    THEN TenTimes(nj, opt.type) ELSE {opt.max_backlog},
             have_output \in BOOLEAN :
            opt' = [opt EXCEPT
                      !.num_jobs = nj,
                      !.max_backlog = mb,
                      !.pc = IF opt.comp_extra = "help" THEN "exit_success"
                             ELSE IF ~opt.infile /\ ~opt.packdir
                               THEN "exit_failure"
                             ELSE IF ~have_output THEN "exit_failure"
                             ELSE "returned"]
    /\ UNCHANGED notOpt

NextOpt ==
    \/ OptJobs \/ OptBacklog \/ OptCompExtra \/ OptInput
    \/ OptOther \/ OptExit \/ OptFinish

SpecOpt == InitOpt /\ [][NextOpt]_vars

\* b is ten times n, in exact arithmetic
IsTenTimes(b, n, type) == TenTimesFits(n, type) /\ b = TenTimesWrapped(n)

\* C14: when process_command_line has returned, num_jobs and max_backlog
\* are at least 1, and if no --queue-backlog value of at least 1 was
\* given, max_backlog is ten times the final num_jobs.
C14_JobsAndBacklog ==
    opt.pc = "returned" =>
        /\ ~LessThanOne(opt.num_jobs, opt.type)
        /\ ~LessThanOne(opt.max_backlog, opt.type)
        /\ ~opt.backlog_given =>
             IsTenTimes(opt.max_backlog, opt.num_jobs, opt.type)


\* ------------------------------------------------------------------
\* read_header of the tar library
\* ------------------------------------------------------------------

MaxRecords == 3    \* most records in front of the entry's own header
MaxPaxLines == 2   \* most lines in one PAX record

\* C strings are tuples of characters; NUL is the zero byte
NUL == "NUL"

None == << >>
Some(s) == << s >>

\* the bytes of a char array up to its first zero byte
CStr(bytes) ==
    LET ends == {k \in 1..Len(bytes) : bytes[k] = NUL}
    IN IF ends = {} THEN bytes
       ELSE SubSeq(bytes, 1, (CHOOSE k \in ends : \A j \in ends : k <= j) - 1)

\* a string stored in a field of n bytes, zero padded
Field(str, n) == str \o [i \in 1..(n - Len(str)) |-> NUL]

\* strncmp(line, key, n) == 0 for a key of n characters
strncmp0(line, key) ==
    Len(line) >= Len(key) /\ SubSeq(line, 1, Len(key)) = key

\* line + n
Plus(line, n) == SubSeq(line, n + 1, Len(line))

TAR_TYPE_FILE == "0"
TAR_TYPE_LINK == "1"
TAR_TYPE_SLINK == "2"
TAR_TYPE_CHARDEV == "3"
TAR_TYPE_BLOCKDEV == "4"
TAR_TYPE_DIR == "5"
TAR_TYPE_FIFO == "6"
TAR_TYPE_GNU_SLINK == "K"
TAR_TYPE_GNU_PATH == "L"
TAR_TYPE_PAX == "x"

S_IFIFO == 4096
S_IFCHR == 8192
S_IFDIR == 16384
S_IFBLK == 24576
S_IFREG == 32768
S_IFLNK == 40960
PERM_MASK == 4096      \* field & 07777 is field % 4096
PERM_0777 == 511

ETV_UNKNOWN == "ETV_UNKNOWN"
ETV_V7_UNIX == "ETV_V7_UNIX"
ETV_PRE_POSIX == "ETV_PRE_POSIX"
ETV_POSIX == "ETV_POSIX"

TAR_MAGIC == << "u", "s", "t", "a", "r", NUL >>
TAR_VERSION == << "0", "0" >>
TAR_MAGIC_OLD == << "u", "s", "t", "a", "r", " " >>
TAR_VERSION_OLD == << " ", NUL >>

check_version(hdr) ==
    IF hdr.magic = Field(<< >>, 6) /\ hdr.version = Field(<< >>, 2)
        THEN ETV_V7_UNIX
    ELSE IF hdr.magic = TAR_MAGIC /\ hdr.version = TAR_VERSION
        THEN ETV_POSIX
    ELSE IF hdr.magic = TAR_MAGIC_OLD /\ hdr.version = TAR_VERSION_OLD
        THEN ETV_PRE_POSIX
    ELSE ETV_UNKNOWN

\* the keys of PAX lines
KEY_uid == << "u", "i", "d", "=" >>
KEY_gid == << "g", "i", "d", "=" >>
KEY_path == << "p", "a", "t", "h", "=" >>
KEY_size == << "s", "i", "z", "e", "=" >>
KEY_mtime == << "m", "t", "i", "m", "e", "=" >>
KEY_linkpath == << "l", "i", "n", "k", "p", "a", "t", "h", "=" >>
KEY_sparse_name == << "G", "N", "U", ".", "s", "p", "a", "r", "s", "e",
                      ".", "n", "a", "m", "e", "=" >>
KEY_comment == << "c", "o", "m", "m", "e", "n", "t", "=" >>

Digits == {"0", "1", "2", "3", "4", "5", "6", "7", "8", "9"}
Spaces == {" ", "\n", "\t"}

DigitValue(c) ==
    CASE c = "0" -> 0 [] c = "1" -> 1 [] c = "2" -> 2 [] c = "3" -> 3
      [] c = "4" -> 4 [] c = "5" -> 5 [] c = "6" -> 6 [] c = "7" -> 7
      [] c = "8" -> 8 [] c = "9" -> 9

\* the value of a string of decimal digits
RECURSIVE pax_read_decimal(_)
pax_read_decimal(str) ==
    IF str = << >> THEN 0
    ELSE 10 * pax_read_decimal(SubSeq(str, 1, Len(str) - 1))
           + DigitValue(str[Len(str)])

\* the first position from i on whose character is not in cs
SkipWhile(b, i, cs) ==
    LET stop == {k \in i..(Len(b) + 1) : k = Len(b) + 1 \/ b[k] \notin cs}
    IN CHOOSE k \in stop : \A j \in stop : k <= j

\* the first position from i on that holds a newline
FindNewline(b, i) ==
    LET stop == {k \in i..(Len(b) + 1) : k = Len(b) + 1 \/ b[k] = "\n"}
    IN CHOOSE k \in stop : \A j \in stop : k <= j

\* the lines the loop of read_pax_header cuts out of the record, from
\* position i on: white space, the length digits and white space are
\* skipped, the line runs to the newline
RECURSIVE pax_lines(_, _)
pax_lines(b, i) ==
    LET start == SkipWhile(b, SkipWhile(b, SkipWhile(b, i, Spaces), Digits),
                           Spaces)
        end == FindNewline(b, start)
    IN IF start > Len(b) THEN << >>
       ELSE << CStr(SubSeq(b, start, end - 1)) >> \o pax_lines(b, end + 1)


\* one line of a PAX record, read with the key at offset 16 for
\* GNU.sparse.name=
pax_line_offset16(st, line) ==
    IF strncmp0(line, KEY_uid) THEN
        [st EXCEPT !.out.st_uid = pax_read_decimal(Plus(line, 4)),
                   !.set_by_pax = @ \cup {"PAX_UID"}]
    ELSE IF strncmp0(line, KEY_gid) THEN
        [st EXCEPT !.out.st_gid = pax_read_decimal(Plus(line, 4)),
                   !.set_by_pax = @ \cup {"PAX_GID"}]
    ELSE IF strncmp0(line, KEY_path) THEN
        [st EXCEPT !.out.name = Some(Plus(line, 5)),
                   !.set_by_pax = @ \cup {"PAX_NAME"}]
    ELSE IF strncmp0(line, KEY_size) THEN
        [st EXCEPT !.out.record_size = pax_read_decimal(Plus(line, 5)),
                   !.set_by_pax = @ \cup {"PAX_SIZE"}]
    ELSE IF strncmp0(line, KEY_linkpath) THEN
        [st EXCEPT !.out.link_target = Some(Plus(line, 9)),
                   !.set_by_pax = @ \cup {"PAX_SLINK_TARGET"}]
    ELSE IF strncmp0(line, KEY_mtime) THEN
        [st EXCEPT !.out.mtime =
                       IF Len(line) > 6 /\ line[7] = "-"
                       THEN 0 - pax_read_decimal(Plus(line, 7))
                       ELSE pax_read_decimal(Plus(line, 6)),
                   !.set_by_pax = @ \cup {"PAX_MTIME"}]
    ELSE IF strncmp0(line, KEY_sparse_name) THEN
        [st EXCEPT !.out.name = Some(Plus(line, 16)),
                   !.set_by_pax = @ \cup {"PAX_NAME"}]
    ELSE st

\* one line of a PAX record: the chain of strncmp branches
pax_line(st, line) ==
    IF strncmp0(line, KEY_uid) THEN
        [st EXCEPT !.out.st_uid = pax_read_decimal(Plus(line, 4)),
                   !.set_by_pax = @ \cup {"PAX_UID"}]
    ELSE IF strncmp0(line, KEY_gid) THEN
        [st EXCEPT !.out.st_gid = pax_read_decimal(Plus(line, 4)),
                   !.set_by_pax = @ \cup {"PAX_GID"}]
    ELSE IF strncmp0(line, KEY_path) THEN
        [st EXCEPT !.out.name = Some(Plus(line, 5)),
                   !.set_by_pax = @ \cup {"PAX_NAME"}]
    ELSE IF strncmp0(line, KEY_size) THEN
        [st EXCEPT !.out.record_size = pax_read_decimal(Plus(line, 5)),
                   !.set_by_pax = @ \cup {"PAX_SIZE"}]
    ELSE IF strncmp0(line, KEY_linkpath) THEN
        [st EXCEPT !.out.link_target = Some(Plus(line, 9)),
                   !.set_by_pax = @ \cup {"PAX_SLINK_TARGET"}]
    ELSE IF strncmp0(line, KEY_mtime) THEN
        [st EXCEPT !.out.mtime =
                       IF Len(line) > 6 /\ line[7] = "-"
                       THEN 0 - pax_read_decimal(Plus(line, 7))
                       ELSE pax_read_decimal(Plus(line, 6)),
                   !.set_by_pax = @ \cup {"PAX_MTIME"}]
    ELSE IF strncmp0(line, KEY_sparse_name) THEN
        [st EXCEPT !.out.name = Some(Plus(line, 5)),
                   !.set_by_pax = @ \cup {"PAX_NAME"}]
    ELSE st

RECURSIVE pax_apply(_, _, _)
pax_apply(st, lines, i) ==
    IF i > Len(lines) THEN st
    ELSE pax_apply(pax_line(st, lines[i]), lines, i + 1)

\* read_pax_header on a record whose content is buffer
read_pax_header(st, buffer) == pax_apply(st, pax_lines(buffer, 1), 1)

\* the decoded header after memset(out, 0, sizeof(*out)); clear_header
\* frees what it holds and leaves it in the same state
Out0 == [name |-> None, link_target |-> None, st_mode |-> 0, st_uid |-> 0,
         st_gid |-> 0, record_size |-> 0, mtime |-> 0,
         unknown_record |-> FALSE]

clear_header(out) == Out0

\* set_by_pax & flag
set_by_never(set_by_pax, flag) == FALSE

set_by(set_by_pax, flag) == flag \in set_by_pax

\* decode_header: name, size, uid, gid, mtime, mode, link target, then the
\* type switch.
\* strdup(hdr->linkname) runs on into magic and version when the 100
\* bytes of linkname hold no zero byte.
decode_header(hdr, set_by_pax, out, version) ==
    LET o1 == IF set_by(set_by_pax, "PAX_NAME") THEN out
              ELSE IF hdr.prefix[1] # NUL /\ version = ETV_POSIX
                THEN [out EXCEPT !.name = Some(CStr(hdr.prefix) \o << "/" >>
                                                 \o CStr(hdr.name))]
              ELSE [out EXCEPT !.name = Some(CStr(hdr.name))]
        s1 == IF set_by(set_by_pax, "PAX_SIZE") THEN o1
              ELSE [o1 EXCEPT !.record_size = hdr.size]
        u1 == IF set_by(set_by_pax, "PAX_UID") THEN s1
              ELSE [s1 EXCEPT !.st_uid = hdr.uid]
        g1 == IF set_by(set_by_pax, "PAX_GID") THEN u1
              ELSE [u1 EXCEPT !.st_gid = hdr.gid]
        o2 == IF set_by(set_by_pax, "PAX_MTIME") THEN g1
              ELSE [g1 EXCEPT !.mtime = hdr.mtime]
        o3 == [o2 EXCEPT !.st_mode = hdr.mode % PERM_MASK]
        o4 == IF hdr.typeflag \in {TAR_TYPE_LINK, TAR_TYPE_SLINK}
                 /\ ~set_by(set_by_pax, "PAX_SLINK_TARGET")
              THEN [o3 EXCEPT !.link_target =
                      Some(CStr(hdr.linkname \o hdr.magic \o hdr.version))]
              ELSE o3
        o5 == [o4 EXCEPT !.unknown_record = FALSE]
    IN CASE hdr.typeflag \in {NUL, TAR_TYPE_FILE} ->
              [o5 EXCEPT !.st_mode = @ + S_IFREG]
         [] hdr.typeflag = TAR_TYPE_LINK ->
              [o5 EXCEPT !.st_mode = S_IFLNK + PERM_0777]
         [] hdr.typeflag = TAR_TYPE_SLINK ->
              [o5 EXCEPT !.st_mode = S_IFLNK + PERM_0777]
         [] hdr.typeflag = TAR_TYPE_CHARDEV ->
              [o5 EXCEPT !.st_mode = @ + S_IFCHR]
         [] hdr.typeflag = TAR_TYPE_BLOCKDEV ->
              [o5 EXCEPT !.st_mode = @ + S_IFBLK]
         [] hdr.typeflag = TAR_TYPE_DIR ->
              [o5 EXCEPT !.st_mode = @ + S_IFDIR]
         [] hdr.typeflag = TAR_TYPE_FIFO ->
              [o5 EXCEPT !.st_mode = @ + S_IFIFO]
         [] OTHER -> [o5 EXCEPT !.unknown_record = TRUE]


\* the archive's records, as read_header meets them

Hdr(tf, name, prefix, linkname, ver, mode, uid) ==
    [typeflag |-> tf, name |-> Field(name, 100), prefix |-> Field(prefix, 155),
     linkname |-> Field(linkname, 100),
     magic |-> IF ver = ETV_POSIX THEN TAR_MAGIC
               ELSE IF ver = ETV_PRE_POSIX THEN TAR_MAGIC_OLD
               ELSE Field(<< >>, 6),
     version |-> IF ver = ETV_POSIX THEN TAR_VERSION
                 ELSE IF ver = ETV_PRE_POSIX THEN TAR_VERSION_OLD
                 ELSE Field(<< >>, 2),
     mode |-> mode, uid |-> uid, gid |-> uid + 1, size |-> 3, mtime |-> 9]

NoHdr == Hdr(NUL, << >>, << >>, << >>, ETV_V7_UNIX, 0, 0)

ShortName == << "f" >>
LongName == [i \in 1..100 |-> "a"]

EntryTypes == {NUL, TAR_TYPE_FILE, TAR_TYPE_LINK, TAR_TYPE_SLINK,
               TAR_TYPE_CHARDEV, TAR_TYPE_BLOCKDEV, TAR_TYPE_DIR,
               TAR_TYPE_FIFO, "V"}

\* mode fields: 0644, and 0100644 with bits above 07777
Modes == {420, 33188}

\* headers of every type; links with short and full linkname fields in
\* the three formats; a header with a prefix
EntryHeaders ==
    {Hdr(tf, ShortName, << >>, << >>, ETV_POSIX, m, 5) :
        tf \in EntryTypes, m \in Modes}
    \cup {Hdr(tf, ShortName, << >>, ln, ver, 420, 5) :
            tf \in {TAR_TYPE_LINK, TAR_TYPE_SLINK},
            ln \in {<< "t" >>, LongName},
            ver \in {ETV_V7_UNIX, ETV_PRE_POSIX, ETV_POSIX}}
    \cup {Hdr(TAR_TYPE_FILE, LongName, << "d" >>, << >>, ver, 420, 5) :
            ver \in {ETV_PRE_POSIX, ETV_POSIX}}

\* the content of GNU long name and long link records
GnuStrings == {<< "g", NUL >>, << "l", "o", "n", "g", NUL >>}

PaxValues == {<< "n" >>, << "d", "/", "n" >>}

PaxLineSet ==
    {k \o v : k \in {KEY_path, KEY_linkpath, KEY_sparse_name},
              v \in PaxValues}
        \cup {KEY_uid \o << "7" >>, KEY_comment \o << "x" >>,
              KEY_gid \o << "8" >>, KEY_size \o << "4" >>,
              KEY_mtime \o << "-", "2" >>, KEY_mtime \o << "2" >>}

PaxLineSeqs == UNION {[1..n -> PaxLineSet] : n \in 1..MaxPaxLines}

\* a PAX record: each line as "<length> <line>\n"
RECURSIVE PaxBuffer(_, _)
PaxBuffer(lines, i) ==
    IF i > Len(lines) THEN << >>
    ELSE << "3", "0", " " >> \o lines[i] \o << "\n" >>
           \o PaxBuffer(lines, i + 1)

notTar == << fs, block_size, cmp, nd, im, dm, image, tmpfile, super,
             inode_counter, queue, irecs, pc, res, ret, prev_used,
             wr, opt, dump, bp, rd >>

\* read_header(fd, out) has been called and has cleared out
InitTar ==
    /\ SerializerOff
    /\ wr = Off /\ opt = Off /\ dump = Off /\ bp = Off /\ rd = Off
    /\ tar = [pc |-> "read", set_by_pax |-> {}, prev_was_zero |-> FALSE,
              out |-> Out0, nrec |-> 0, ret |-> 0, last |-> "none",
              hdr |-> NoHdr, lines |-> << >>, log |-> << >>]

TarReading == tar.pc = "read"
TarMore == tar.pc = "read" /\ tar.nrec < MaxRecords

TarFail(why) ==
    tar' = [tar EXCEPT !.pc = "done", !.ret = -1, !.last = why,
                       !.log = Append(@, "fail"),
                       !.out = clear_header(tar.out), !.lines = << >>]

\* read_retry fails, the magic is unknown or the checksum is wrong
TarBadRecord ==
    /\ TarReading
    /\ \E why \in {"read", "magic", "chksum"} : TarFail(why)
    /\ UNCHANGED notTar

TAR_RECORD_SIZE == 512

ZeroBlock == [i \in 1..TAR_RECORD_SIZE |-> NUL]

\* blocks as read from the archive: all zero, and zero but for one byte
RawBlocks == {ZeroBlock, [ZeroBlock EXCEPT ![1] = "x"],
              [ZeroBlock EXCEPT ![TAR_RECORD_SIZE] = "x"]}

\* ptr[0] == '\0' && memcmp(ptr, ptr + 1, sizeof(*hdr) - 1) == 0
is_zero_block(blk) ==
    blk[1] = NUL /\ \A i \in 1..(Len(blk) - 1) : blk[i] = blk[i + 1]

\* a zero block ends the archive whether or not one came before
zero_block_step_first(t) ==
    [t EXCEPT !.pc = "done", !.ret = 1, !.last = "eof",
              !.log = Append(@, "zero"),
              !.out = clear_header(t.out), !.lines = << >>]

\* a zero block: end of archive if the block before was one too,
\* otherwise remember it and read on
zero_block_step(t) ==
    IF t.prev_was_zero
    THEN [t EXCEPT !.pc = "done", !.ret = 1, !.last = "eof",
                   !.log = Append(@, "zero"),
                   !.out = clear_header(t.out), !.lines = << >>]
    ELSE [t EXCEPT !.prev_was_zero = TRUE, !.nrec = @ + 1,
                   !.last = "zero", !.log = Append(@, "zero"),
                   !.lines = << >>]

\* a block of 512 zero bytes
TarZeroBlock ==
    /\ TarReading
    /\ tar.prev_was_zero \/ tar.nrec < MaxRecords
    /\ \E blk \in {b \in RawBlocks : is_zero_block(b)} :
           tar' = zero_block_step(tar)
    /\ UNCHANGED notTar

\* case TAR_TYPE_GNU_SLINK
TarGnuSlink ==
    /\ TarMore
    /\ \/ \E str \in GnuStrings :
            tar' = [tar EXCEPT !.prev_was_zero = FALSE,
                               !.out.link_target = Some(CStr(str)),
                               !.set_by_pax = @ \cup {"PAX_SLINK_TARGET"},
                               !.nrec = @ + 1, !.last = "K",
                               !.log = Append(@, "K"), !.lines = << >>]
       \/ TarFail("slink")
    /\ UNCHANGED notTar

\* case TAR_TYPE_GNU_PATH
TarGnuPath ==
    /\ TarMore
    /\ \/ \E str \in GnuStrings :
            tar' = [tar EXCEPT !.prev_was_zero = FALSE,
                               !.out.name = Some(CStr(str)),
                               !.set_by_pax = @ \cup {"PAX_NAME"},
                               !.nrec = @ + 1, !.last = "L",
                               !.log = Append(@, "L"), !.lines = << >>]
       \/ TarFail("path")
    /\ UNCHANGED notTar

\* the flags are left as the earlier records set them
pax_flags_kept(set_by_pax) == set_by_pax

\* set_by_pax = 0 in front of read_pax_header
pax_flags_reset(set_by_pax) == {}

\* case TAR_TYPE_PAX
TarPax ==
    /\ TarMore
    /\ \/ \E lines \in PaxLineSeqs :
            LET st == read_pax_header([out |-> clear_header(tar.out),
                                       set_by_pax |->
                                           pax_flags_reset(tar.set_by_pax)],
                                      PaxBuffer(lines, 1))
            IN tar' = [tar EXCEPT !.prev_was_zero = FALSE,
                                  !.out = st.out,
                                  !.set_by_pax = st.set_by_pax,
                                  !.nrec = @ + 1, !.last = "x",
                                  !.log = Append(@, "x"),
                                  !.lines = lines]
       \/ TarFail("pax")
    /\ UNCHANGED notTar

\* the entry's own header: the switch is left, decode_header runs
TarEntry ==
    /\ TarReading
    /\ \/ \E hdr \in EntryHeaders :
            tar' = [tar EXCEPT !.prev_was_zero = FALSE,
                               !.out = decode_header(hdr, tar.set_by_pax,
                                                     tar.out,
                                                     check_version(hdr)),
                               !.pc = "done", !.ret = 0, !.last = "entry",
                               !.log = Append(@, "entry"),
                               !.hdr = hdr, !.lines = << >>]
       \/ TarFail("decode")
    /\ UNCHANGED notTar

NextTar ==
    \/ TarBadRecord \/ TarZeroBlock \/ TarGnuSlink \/ TarGnuPath
    \/ TarPax \/ TarEntry

SpecTar == InitTar /\ [][NextTar]_vars


TarReturned(r) == tar.pc = "done" /\ tar.ret = r

\* C15: a header of type TAR_TYPE_LINK is decoded like a symbolic link:
\* the mode is exactly S_IFLNK | 0777, unknown_record is false, and the
\* link target is the header's linkname field unless a GNU 'K' record or
\* a PAX linkpath supplied it.
C15_LinkAsSymlink ==
    (TarReturned(0) /\ tar.hdr.typeflag = TAR_TYPE_LINK) =>
        /\ tar.out.st_mode = S_IFLNK + PERM_0777
        /\ ~tar.out.unknown_record
        /\ tar.out.link_target # None
        /\ "PAX_SLINK_TARGET" \notin tar.set_by_pax =>
             tar.out.link_target = Some(CStr(tar.hdr.linkname))

PARSE_NAME == << "p", "a", "r", "s", "e", ".", "n", "a", "m", "e", "=" >>

\* the lines of the last PAX record that set the name
NameLines ==
    {i \in 1..Len(tar.lines) :
        strncmp0(tar.lines[i], KEY_path)
            \/ strncmp0(tar.lines[i], KEY_sparse_name)}

LastNameLine == tar.lines[CHOOSE i \in NameLines : \A j \in NameLines : j <= i]

\* the step in which decode_header has run on the entry's own header
TarDecoded ==
    tar.pc = "read" /\ tar'.pc = "done" /\ tar'.ret = 0

\* the name decode_header builds from the header's name and prefix fields
HeaderNames(hdr) ==
    {Some(CStr(hdr.name)),
     Some(CStr(hdr.prefix) \o << "/" >> \o CStr(hdr.name))}

\* C24: decoding the entry's own header leaves every attribute that an
\* extension record supplied (name, link target, record size, uid, gid,
\* mtime) as it was, and takes from the header's own fields exactly the
\* attributes that no extension record set.
C24_ExtensionAttributesKept ==
    [][TarDecoded =>
        LET set == tar.set_by_pax
            old == tar.out
            new == tar'.out
            hdr == tar'.hdr
        IN /\ IF "PAX_NAME" \in set THEN new.name = old.name
              ELSE new.name \in HeaderNames(hdr)
           /\ IF "PAX_SIZE" \in set THEN new.record_size = old.record_size
              ELSE new.record_size = hdr.size
           /\ IF "PAX_UID" \in set THEN new.st_uid = old.st_uid
              ELSE new.st_uid = hdr.uid
           /\ IF "PAX_GID" \in set THEN new.st_gid = old.st_gid
              ELSE new.st_gid = hdr.gid
           /\ IF "PAX_MTIME" \in set THEN new.mtime = old.mtime
              ELSE new.mtime = hdr.mtime
           /\ IF "PAX_SLINK_TARGET" \in set
              THEN new.link_target = old.link_target
              ELSE hdr.typeflag \in {TAR_TYPE_LINK, TAR_TYPE_SLINK} =>
                       /\ new.link_target # None
                       /\ SubSeq(new.link_target[1], 1,
                                 Len(CStr(hdr.linkname)))
                              = CStr(hdr.linkname)
    ]_vars

\* a PAX record with size and mtime, a GNU long name and a GNU long link,
\* then a symbolic link header: all four survive, uid and gid are the
\* header's
C24_Witness ==
    /\ TarReturned(0)
    /\ tar.log = << "x", "L", "K", "entry" >>
    /\ tar.set_by_pax =
           {"PAX_SIZE", "PAX_MTIME", "PAX_NAME", "PAX_SLINK_TARGET"}
    /\ tar.hdr.typeflag = TAR_TYPE_SLINK
    /\ tar.out.record_size = 4 /\ tar.hdr.size = 3
    /\ tar.out.mtime = 0 - 2 /\ tar.hdr.mtime = 9
    /\ tar.out.name = Some(<< "l", "o", "n", "g" >>)
    /\ tar.out.link_target = Some(<< "g" >>)
    /\ tar.out.st_uid = tar.hdr.uid /\ tar.out.st_gid = tar.hdr.gid

\* the step in which a PAX record has been read
TarPaxRead == tar.pc = "read" /\ tar'.pc = "read" /\ tar'.last = "x"

\* what a PAX record with these lines yields when nothing came before it
PaxAlone(lines) ==
    read_pax_header([out |-> Out0, set_by_pax |-> {}], PaxBuffer(lines, 1))

GnuNames == {Some(CStr(str)) : str \in GnuStrings}

\* a GNU long name record was read after the last PAX record
LongNameInForce(log) ==
    \E i \in 1..Len(log) :
        /\ log[i] = "L"
        /\ \A j \in (i + 1)..Len(log) : log[j] # "x"

\* C25: a PAX record discards what the records before it supplied: after
\* it the decoded header and the flags are what the PAX record alone
\* yields. So the entry's name is a GNU long name exactly when a GNU long
\* name record came after the last PAX record.
C25_PaxDiscardsEarlierOverrides ==
    [][/\ TarPaxRead =>
            /\ tar'.out = PaxAlone(tar'.lines).out
            /\ tar'.set_by_pax = PaxAlone(tar'.lines).set_by_pax
       /\ TarDecoded =>
            (tar'.out.name \in GnuNames <=> LongNameInForce(tar.log))
    ]_vars

\* a GNU long name and a GNU long link, then a PAX record that sets only
\* the uid, then a symbolic link: name and link target are the header's
C25_Witness ==
    /\ TarReturned(0)
    /\ tar.log = << "L", "K", "x", "entry" >>
    /\ tar.set_by_pax = {"PAX_UID"}
    /\ tar.out.st_uid = 7
    /\ tar.hdr.typeflag = TAR_TYPE_SLINK
    /\ tar.out.name = Some(ShortName)
    /\ tar.out.link_target = Some(<< "t" >>)

\* the GNU long name after the PAX record is the entry's name
C25_WitnessAfter ==
    /\ TarReturned(0)
    /\ tar.log = << "L", "x", "L", "entry" >>
    /\ tar.out.name = Some(<< "g" >>)

\* the kinds of the last two records read, oldest first
LastTwo(log) == SubSeq(log, Len(log) - 1, Len(log))

\* C23: read_header returns 1, with the output header cleared, exactly when
\* the last two blocks it read were both all zero; a single zero block is
\* skipped, any other block resets the detection, and an entry that follows
\* a lone zero block is decoded and returned with 0.
C23_TwoZeroBlocksEndOfArchive ==
    /\ TarReturned(1) <=>
           /\ tar.pc = "done"
           /\ Len(tar.log) >= 2
           /\ LastTwo(tar.log) = << "zero", "zero" >>
    /\ TarReturned(1) => tar.out = Out0
    /\ TarReading =>
           (tar.prev_was_zero <=>
                (tar.log # << >> /\ tar.log[Len(tar.log)] = "zero"))
    /\ (TarReturned(0) /\ Len(tar.log) >= 2
            /\ LastTwo(tar.log) = << "zero", "entry" >>) =>
           tar.out.name # None

\* a zero block, a GNU long name, a zero block again, then the entry:
\* returned with the long name, no end of archive in between
C23_Witness ==
    /\ TarReturned(0)
    /\ tar.log = << "zero", "L", "zero", "entry" >>
    /\ tar.out.name = Some(<< "l", "o", "n", "g" >>)

\* end of archive after a zero block, another record and two zero blocks
C23_WitnessEof ==
    /\ TarReturned(1)
    /\ tar.log = << "zero", "L", "zero", "zero" >>
    /\ tar.out = Out0

\* C19: after a PAX record whose last name line starts with
\* GNU.sparse.name=, the name is the text from byte offset 5 of that line,
\* that is "parse.name=" followed by the value, and PAX_NAME is set.
C19_SparseNameOffset ==
    (tar.last = "x" /\ NameLines # {}
        /\ strncmp0(LastNameLine, KEY_sparse_name)) =>
        /\ tar.out.name =
             Some(PARSE_NAME \o SubSeq(LastNameLine, 17, Len(LastNameLine)))
        /\ "PAX_NAME" \in tar.set_by_pax

\* path= first, GNU.sparse.name= after it in the same record
C19_Witness ==
    /\ tar.last = "x"
    /\ Len(tar.lines) = 2
    /\ strncmp0(tar.lines[1], KEY_path)
    /\ tar.lines[2] = KEY_sparse_name \o << "d", "/", "n" >>
    /\ tar.out.name = Some(PARSE_NAME \o << "d", "/", "n" >>)


\* ------------------------------------------------------------------
\* sqfs_data_reader_dump and append_block
\* ------------------------------------------------------------------

MaxBlocks == 2        \* most blocks of a dumped file
DumpBlockSize == 3    \* block_size of the dumped image
MaxWriteFaults == 2   \* most write() calls of one append_block that
                      \* return 0, fail or are interrupted

\* a file: its block list (TRUE for a sparse block), the number of
\* bytes its last listed block stands for and the length of its fragment
\* tail. Every other listed block stands for block_size bytes; a file
\* with a fragment has only full blocks.
DumpFiles ==
    {f \in [sparse : UNION {[1..n -> BOOLEAN] : n \in 0..MaxBlocks},
            last : 1..DumpBlockSize, tail : 0..(DumpBlockSize - 1)] :
        f.last < DumpBlockSize => (f.tail = 0 /\ f.sparse # << >>)}

\* the bytes block i of the file stands for: blk->size of the block that
\* sqfs_data_reader_get_block returns
BlockLen(f, i) == IF i = Len(f.sparse) THEN f.last ELSE DumpBlockSize

\* sqfs_inode_get_file_size
FileSize(f) ==
    IF f.sparse = << >> THEN f.tail
    ELSE (Len(f.sparse) - 1) * DumpBlockSize + f.last + f.tail

\* append_block reporting a failed or truncated write
append_block_return_failure(a) ==
    IF a.zeros + a.errors > 0 THEN -1 ELSE 0

\* the value append_block returns once its loop has ended
append_block_return(a) == 0

notDump == << fs, block_size, cmp, nd, im, dm, image, tmpfile, super,
              inode_counter, queue, irecs, pc, res, ret, prev_used,
              wr, opt, tar, bp, rd >>

NoAppend == [size |-> 0, ptr |-> 0, blk |-> 0, zeros |-> 0, errors |-> 0,
             eintr |-> 0, last |-> "none"]

\* sqfs_data_reader_dump has been called and has read the file size
InitDump ==
    /\ SerializerOff
    /\ wr = Off /\ opt = Off /\ tar = Off /\ bp = Off /\ rd = Off
    /\ \E f \in DumpFiles, sp \in BOOLEAN :
         dump = [pc |-> "truncate", file |-> f, allow_sparse |-> sp,
                 filesz |-> FileSize(f), frag_read |-> FALSE,
                 i |-> 0, ret |-> 0, why |-> "none",
                 offset |-> 0, written |-> 0, faults |-> 0,
                 a |-> NoAppend]

DumpReturn(r, why) ==
    dump' = [dump EXCEPT !.pc = "done", !.ret = r, !.why = why]

\* allow_sparse && ftruncate(outfd, filesz)
DumpTruncate ==
    /\ dump.pc = "truncate"
    /\ \/ dump' = [dump EXCEPT !.pc = "loop"]
       \/ dump.allow_sparse /\ DumpReturn(-1, "sparse")
    /\ UNCHANGED notDump

DumpInLoop == dump.pc = "loop" /\ dump.i < Len(dump.file.sparse)

\* a sparse block of a file dumped with allow_sparse: seek over it
DumpSparseBlock ==
    /\ DumpInLoop
    /\ dump.file.sparse[dump.i + 1] /\ dump.allow_sparse
    /\ LET diff == IF dump.filesz < DumpBlockSize THEN dump.filesz
                   ELSE DumpBlockSize
       IN \/ dump' = [dump EXCEPT !.filesz = @ - diff,
                                  !.offset = @ + diff, !.i = @ + 1]
          \/ dump' = [dump EXCEPT !.filesz = @ - diff, !.pc = "done",
                                  !.ret = -1, !.why = "sparse"]
    /\ UNCHANGED notDump

\* any other block: sqfs_data_reader_get_block, then append_block starts
DumpGetBlock ==
    /\ DumpInLoop
    /\ ~(dump.file.sparse[dump.i + 1] /\ dump.allow_sparse)
    /\ \/ LET len == BlockLen(dump.file, dump.i + 1)
          IN dump' = [dump EXCEPT !.pc = "append",
                                  !.a = [NoAppend EXCEPT !.size = len,
                                                         !.blk = len]]
       \/ DumpReturn(-1, "read")
    /\ UNCHANGED notDump

\* after the loop, filesz > 0: sqfs_data_reader_get_fragment, then
\* append_block starts
DumpGetFragment ==
    /\ dump.pc = "loop" /\ dump.i = Len(dump.file.sparse)
    /\ dump.filesz > 0
    /\ \/ dump' = [dump EXCEPT !.pc = "append_frag", !.frag_read = TRUE,
                               !.a = [NoAppend EXCEPT !.size = dump.filesz,
                                                      !.blk = dump.filesz]]
       \/ DumpReturn(-1, "read")
    /\ UNCHANGED notDump

\* after the loop, filesz == 0
DumpFinish ==
    /\ dump.pc = "loop" /\ dump.i = Len(dump.file.sparse)
    /\ dump.filesz = 0
    /\ DumpReturn(0, "none")
    /\ UNCHANGED notDump

Appending == dump.pc \in {"append", "append_frag"} /\ dump.a.size > 0
MoreFaults == dump.a.zeros + dump.a.errors + dump.a.eintr < MaxWriteFaults

\* write() took n > 0 bytes
AppendWritten ==
    /\ Appending
    /\ \E n \in 1..dump.a.size :
         dump' = [dump EXCEPT !.a.ptr = @ + n, !.a.size = @ - n,
                              !.a.last = "written",
                              !.offset = @ + n, !.written = @ + n]
    /\ UNCHANGED notDump

\* write() was interrupted: continue
AppendEintr ==
    /\ Appending /\ MoreFaults
    /\ dump' = [dump EXCEPT !.a.eintr = @ + 1, !.a.last = "eintr"]
    /\ UNCHANGED notDump

\* write() returned 0: the message, then ptr += 0 and size -= 0
AppendZero ==
    /\ Appending /\ MoreFaults
    /\ dump' = [dump EXCEPT !.a.zeros = @ + 1, !.a.last = "zero",
                            !.faults = @ + 1]
    /\ UNCHANGED notDump

\* write() returned -1 with another error: perror, then ptr += -1 and
\* size -= -1
AppendError ==
    /\ Appending /\ MoreFaults
    /\ dump' = [dump EXCEPT !.a.errors = @ + 1, !.a.last = "error",
                            !.a.ptr = @ - 1, !.a.size = @ + 1,
                            !.faults = @ + 1]
    /\ UNCHANGED notDump

\* size has reached 0: append_block returns and the caller tests the
\* value
AppendReturn ==
    /\ dump.pc \in {"append", "append_frag"} /\ dump.a.size = 0
    /\ LET r == append_block_return(dump.a)
       IN IF r # 0
          THEN dump' = [dump EXCEPT !.pc = "done", !.ret = -1,
                                    !.why = "write", !.a.last = "return"]
          ELSE IF dump.pc = "append"
          THEN dump' = [dump EXCEPT !.pc = "loop", !.i = @ + 1,
                                    !.filesz = @ - dump.a.blk,
                                    !.a.last = "return"]
          ELSE dump' = [dump EXCEPT !.pc = "done", !.ret = 0,
                                    !.a.last = "return"]
    /\ UNCHANGED notDump

NextDump ==
    \/ DumpTruncate \/ DumpSparseBlock \/ DumpGetBlock \/ DumpGetFragment
    \/ DumpFinish
    \/ AppendWritten \/ AppendEintr \/ AppendZero \/ AppendError
    \/ AppendReturn

SpecDump == InitDump /\ [][NextDump]_vars

\* C18: append_block never returns non-zero: after a write() that
\* returned 0 or failed with an error other than EINTR it is still in its
\* loop, so sqfs_data_reader_dump never takes the branch behind
\* if (append_block(...)) and never returns -1 because of a write.
C18_WriteFailureNotReported ==
    /\ dump.a.last \in {"zero", "error"} =>
         dump.pc \in {"append", "append_frag"}
    /\ dump.a.last = "return" => append_block_return(dump.a) = 0
    /\ dump.why # "write"
    /\ (dump.pc = "done" /\ dump.ret = -1) => dump.why \in {"sparse", "read"}

\* a dump that returned 0 although writes of both kinds failed on the way
C18_Witness ==
    /\ dump.pc = "done" /\ dump.ret = 0
    /\ dump.a.zeros > 0 /\ dump.a.errors > 0
    /\ dump.a.last = "return"


DumpReturned(r) == dump.pc = "done" /\ dump.ret = r

\* the bytes of the sparse blocks among blocks i .. of the file
RECURSIVE SparseBytes(_, _)
SparseBytes(f, i) ==
    IF i > Len(f.sparse) THEN 0
    ELSE (IF f.sparse[i] THEN BlockLen(f, i) ELSE 0) + SparseBytes(f, i + 1)

\* C27: sqfs_data_reader_dump accounts for the file size without
\* underflow: the remaining byte count never goes below zero and a block
\* never stands for more than what remains; a dump that returned 0 has
\* passed exactly the file's size in written and skipped bytes, has
\* skipped exactly the sparse blocks when allow_sparse is set and nothing
\* otherwise, and has read the fragment exactly when bytes remained after
\* the listed blocks.
C27_FileSizeAccounting ==
    /\ dump.filesz >= 0
    /\ dump.pc = "append" => dump.a.blk <= dump.filesz
    /\ dump.pc = "append_frag" => dump.i = Len(dump.file.sparse)
    /\ DumpReturned(0) =>
         /\ dump.offset = FileSize(dump.file)
         /\ dump.offset - dump.written =
              IF dump.allow_sparse THEN SparseBytes(dump.file, 1) ELSE 0
         /\ dump.frag_read <=> dump.file.tail > 0

\* the same for the runs in which no write() has returned 0 or failed
DumpAccountingWithoutFaults == dump.faults = 0 => C27_FileSizeAccounting

\* a file of a sparse partial last block and a written first block,
\* dumped with allow_sparse and without a failing write()
DumpAccountingWitness ==
    /\ DumpReturned(0) /\ dump.faults = 0 /\ dump.allow_sparse
    /\ dump.file.sparse = << FALSE, TRUE >>
    /\ dump.file.last < DumpBlockSize
    /\ dump.written = DumpBlockSize
    /\ dump.offset = DumpBlockSize + dump.file.last

\* ------------------------------------------------------------------
\* The block processor: workers, todo and done queues, in-order writer
\* ------------------------------------------------------------------

MaxWorkers == 2    \* largest worker pool
MaxBacklog == 2    \* largest backlog limit Q
MaxSubmit == 3     \* most blocks submitted in one run

BlockData == {"a", "b"}

\* bytes a block takes in the image once compressed
EmittedSize(data) == IF data = "a" THEN 1 ELSE 2

\* the error flag is set once and keeps its first value
Poison(b, e) == IF b.error = "none" THEN [b EXCEPT !.error = e] ELSE b

\* a writer that takes any completed block
MayEmitAny(b, blk) == b.error = "none"

\* a writer that goes on after an error
MayEmitPoisoned(b, blk) == blk.seq = b.next_emit

\* the writer takes from done only the block whose sequence number is
\* next_emit, and nothing once the processor is poisoned
MayEmit(b, blk) == b.error = "none" /\ blk.seq = b.next_emit

\* what submit and drain return
SubmitResult(b) == IF b.error = "none" THEN "ok" ELSE b.error

notBP == << fs, block_size, cmp, nd, im, dm, image, tmpfile, super,
            inode_counter, queue, irecs, pc, res, ret, prev_used,
            wr, opt, tar, dump, rd >>

BpWorkers == 1..bp.nworkers

InitBP ==
    /\ SerializerOff
    /\ wr = Off /\ opt = Off /\ tar = Off /\ dump = Off /\ rd = Off
    /\ \E n \in 1..MaxWorkers, q \in 1..MaxBacklog :
         bp = [nworkers |-> n, backlog |-> q,
               todo |-> << >>, done |-> {},
               work |-> [w \in 1..n |-> << >>],
               exited |-> {}, joined |-> {},
               next_seq |-> 0, next_emit |-> 0,
               emitted |-> << >>, written |-> << >>, index |-> {},
               bytes |-> 0,
               error |-> "none", error_at |-> 0,
               finishing |-> FALSE, finished |-> FALSE,
               last_submit |-> "none", last_drain |-> "none"]

\* submit(block): the next sequence number, onto todo; with the error
\* flag set it returns the error and queues nothing
BpSubmit ==
    /\ ~bp.finishing
    /\ bp.next_seq < MaxSubmit
    /\ bp.error # "none" \/ Len(bp.todo) + Cardinality(bp.done) < bp.backlog
    /\ \E d \in BlockData :
         LET r == SubmitResult(bp)
         IN bp' = IF r = "ok"
                  THEN [bp EXCEPT !.todo = Append(@, [seq |-> bp.next_seq,
                                                      data |-> d]),
                                  !.next_seq = @ + 1,
                                  !.last_submit = r]
                  ELSE [bp EXCEPT !.last_submit = r]
    /\ UNCHANGED notBP

\* a worker pops the lowest-sequence block from todo
BpWorkerTake(w) ==
    /\ w \in BpWorkers
    /\ w \notin bp.exited
    /\ bp.work[w] = << >>
    /\ bp.error = "none"
    /\ bp.todo # << >>
    /\ bp' = [bp EXCEPT !.work[w] = << Head(bp.todo) >>,
                        !.todo = Tail(@)]
    /\ UNCHANGED notBP

\* the worker has compressed its block: into done, signal the writer
BpWorkerDone(w) ==
    /\ w \in BpWorkers
    /\ bp.work[w] # << >>
    /\ bp' = [bp EXCEPT !.work[w] = << >>,
                        !.done = @ \cup {bp.work[w][1]}]
    /\ UNCHANGED notBP

\* the codec fails: the worker reports the error
BpWorkerFail(w) ==
    /\ w \in BpWorkers
    /\ bp.work[w] # << >>
    /\ bp' = [Poison(bp, "Compression") EXCEPT
                !.work[w] = << >>,
                !.error_at = IF bp.error = "none" THEN Len(bp.emitted)
                             ELSE @]
    /\ UNCHANGED notBP

\* a worker that holds no block leaves its loop when the processor is
\* poisoned, or when finish was called and todo is empty
BpWorkerExit(w) ==
    /\ w \in BpWorkers
    /\ w \notin bp.exited
    /\ bp.work[w] = << >>
    /\ bp.error # "none" \/ (bp.finishing /\ bp.todo = << >>)
    /\ bp' = [bp EXCEPT !.exited = @ \cup {w}]
    /\ UNCHANGED notBP

\* the writer loop: the block with sequence number next_emit is looked up
\* in the dedup index and appended to the image on a miss
BpEmit ==
    /\ \E blk \in bp.done :
         /\ MayEmit(bp, blk)
         /\ LET hit == blk.data \in bp.index
            IN bp' = [bp EXCEPT
                        !.done = @ \ {blk},
                        !.emitted = Append(@, blk.seq),
                        !.written = IF hit THEN @
                                    ELSE Append(@, [seq |-> blk.seq,
                                                    offset |-> bp.bytes]),
                        !.bytes = IF hit THEN @ ELSE @ + EmittedSize(blk.data),
                        !.index = @ \cup {blk.data},
                        !.next_emit = @ + 1,
                        !.last_drain = "ok"]
    /\ UNCHANGED notBP

\* writing the block to the image fails: the writer reports the error
BpWriterFail ==
    /\ bp.error = "none"
    /\ \E blk \in bp.done : blk.seq = bp.next_emit
    /\ bp' = [Poison(bp, "IO") EXCEPT !.error_at = Len(bp.emitted),
                                      !.last_drain = "IO"]
    /\ UNCHANGED notBP

\* drain on a poisoned processor returns the error
BpDrainPoisoned ==
    /\ bp.error # "none"
    /\ ~bp.finished
    /\ bp' = [bp EXCEPT !.last_drain = SubmitResult(bp)]
    /\ UNCHANGED notBP

\* finish is called: no more submissions, the workers are told to stop
BpFinish ==
    /\ ~bp.finishing
    /\ bp' = [bp EXCEPT !.finishing = TRUE]
    /\ UNCHANGED notBP

\* finish joins a worker that has exited
BpJoin(w) ==
    /\ w \in BpWorkers
    /\ bp.finishing
    /\ w \in bp.exited /\ w \notin bp.joined
    /\ bp' = [bp EXCEPT !.joined = @ \cup {w}]
    /\ UNCHANGED notBP

\* finish returns
BpFinishReturn ==
    /\ bp.finishing /\ ~bp.finished
    /\ bp.joined = BpWorkers
    /\ bp.error # "none" \/ bp.done = {}
    /\ bp' = [bp EXCEPT !.finished = TRUE]
    /\ UNCHANGED notBP

NextBP ==
    \/ BpSubmit
    \/ \E w \in 1..MaxWorkers : BpWorkerTake(w)
    \/ \E w \in 1..MaxWorkers : BpWorkerDone(w)
    \/ \E w \in 1..MaxWorkers : BpWorkerFail(w)
    \/ \E w \in 1..MaxWorkers : BpWorkerExit(w)
    \/ BpEmit \/ BpWriterFail \/ BpDrainPoisoned
    \/ BpFinish
    \/ \E w \in 1..MaxWorkers : BpJoin(w)
    \/ BpFinishReturn

SpecBP == InitBP /\ [][NextBP]_vars

\* threads are scheduled: a worker that can finish its block or leave its
\* loop eventually does
FairBP ==
    \A w \in 1..MaxWorkers :
        /\ WF_vars(BpWorkerDone(w) \/ BpWorkerFail(w))
        /\ WF_vars(BpWorkerExit(w))

SpecBPFair == InitBP /\ [][NextBP]_vars /\ FairBP

\* C16: whatever the interleaving, the worker count and the backlog, the
\* blocks are emitted in the order of their sequence numbers, and the
\* bytes written to the image lie at offsets that increase with the
\* sequence number.
C16_EmittedInSubmissionOrder ==
    /\ bp.next_emit = Len(bp.emitted)
    /\ \A i \in 1..Len(bp.emitted) : bp.emitted[i] = i - 1
    /\ \A i \in 1..(Len(bp.written) - 1) :
         /\ bp.written[i].seq < bp.written[i + 1].seq
         /\ bp.written[i].offset < bp.written[i + 1].offset

\* two workers; a later block is complete while the block to emit next
\* is not, after an earlier block has been written
C16_Witness ==
    /\ bp.nworkers = 2
    /\ bp.written # << >>
    /\ \E blk \in bp.done : blk.seq > bp.next_emit
    /\ \A blk \in bp.done : blk.seq # bp.next_emit

\* C17: an error is sticky. Once the flag is set it keeps its value,
\* submit and drain return it, nothing more is emitted or queued, every
\* worker eventually leaves its loop, and finish returns only when all
\* workers are joined.
C17_StickyError ==
    /\ [](bp.finished => bp.joined = BpWorkers /\ bp.exited = BpWorkers)
    /\ [](bp.error # "none" => Len(bp.emitted) = bp.error_at)
    /\ [][bp.error # "none" =>
            /\ bp.error' = bp.error
            /\ bp.emitted' = bp.emitted /\ bp.written' = bp.written
            /\ bp.todo' = bp.todo
            /\ bp.next_seq' = bp.next_seq
            /\ bp.last_submit' \in {bp.last_submit, bp.error}
            /\ bp.last_drain' \in {bp.last_drain, bp.error}]_vars
    /\ (bp.error # "none") ~> (bp.exited = BpWorkers)

\* a poisoned run that has finished: submit and drain returned the error,
\* a completed block was left unwritten, both workers are joined
C17_Witness ==
    /\ bp.error # "none" /\ bp.finished
    /\ bp.nworkers = 2 /\ bp.joined = BpWorkers
    /\ bp.last_submit = bp.error /\ bp.last_drain = bp.error
    /\ bp.done # {}


\* C21: inside append_block the remaining byte count never increases and
\* the data pointer never moves backwards: the count stays at or below
\* the block's size and the pointer at or after the block's first byte,
\* also after a write() that returned 0 or failed.
C21_RemainingNeverGrows ==
    dump.pc \in {"append", "append_frag"} =>
        /\ dump.a.size <= dump.a.blk
        /\ dump.a.ptr >= 0


\* ------------------------------------------------------------------
\* main of rdsquashfs
\* ------------------------------------------------------------------

RdOps == {"OP_LS", "OP_CAT", "OP_UNPACK", "OP_DESCRIBE", "OP_RDATTR"}

notRd == << fs, block_size, cmp, nd, im, dm, image, tmpfile, super,
            inode_counter, queue, irecs, pc, res, ret, prev_used,
            wr, opt, tar, dump, bp >>

\* process_command_line has returned; nothing is acquired yet
InitRd ==
    /\ SerializerOff
    /\ wr = Off /\ opt = Off /\ tar = Off /\ dump = Off /\ bp = Off
    /\ \E o \in RdOps, co \in BOOLEAN, nx \in BOOLEAN, ur \in BOOLEAN,
          reg \in BOOLEAN :
         rd = [pc |-> "open", op |-> o, comp_opts |-> co, no_xattrs |-> nx,
               unpack_root |-> ur, regular |-> reg,
               acquired |-> << >>, released |-> << >>,
               status |-> "EXIT_FAILURE", ret |-> "none"]

\* the outcomes of a step that acquires nothing: on to next, or goto label
RdStep(next, label) ==
    {[rd EXCEPT !.pc = next], [rd EXCEPT !.pc = label]}

\* the outcomes of a step that creates a resource: on to next with it, or
\* goto label without it
RdAcquire(what, next, label) ==
    {[rd EXCEPT !.pc = next, !.acquired = Append(@, what)],
     [rd EXCEPT !.pc = label]}

RdAfterCmp == IF rd.no_xattrs THEN "idtbl" ELSE "xattr"

\* sqfs_open_file
RdOpenFile ==
    /\ rd.pc = "open"
    /\ rd' \in RdAcquire("file", "super", "out_cmd")
    /\ UNCHANGED notRd

\* sqfs_super_read
RdSuperRead ==
    /\ rd.pc = "super"
    /\ rd' \in RdStep("exists", "out_file")
    /\ UNCHANGED notRd

\* sqfs_compressor_exists
RdCompressorExists ==
    /\ rd.pc = "exists"
    /\ rd' \in RdStep("cmp", "out_file")
    /\ UNCHANGED notRd

\* sqfs_compressor_create
RdCompressorCreate ==
    /\ rd.pc = "cmp"
    /\ rd' \in RdAcquire("cmp", IF rd.comp_opts THEN "cmp_opts"
                                 ELSE RdAfterCmp, "out_file")
    /\ UNCHANGED notRd

\* cmp->read_options, with SQFS_FLAG_COMPRESSOR_OPTIONS set
RdReadOptions ==
    /\ rd.pc = "cmp_opts"
    /\ rd' \in RdStep(RdAfterCmp, "out_cmp")
    /\ UNCHANGED notRd

\* sqfs_xattr_reader_create, without SQFS_FLAG_NO_XATTRS
RdXattrCreate ==
    /\ rd.pc = "xattr"
    /\ rd' \in RdAcquire("xattr", "xattr_load", "out_cmp")
    /\ UNCHANGED notRd

\* sqfs_xattr_reader_load_locations
RdXattrLoad ==
    /\ rd.pc = "xattr_load"
    /\ rd' \in RdStep("idtbl", "out_xr")
    /\ UNCHANGED notRd

\* sqfs_id_table_create
RdIdTableCreate ==
    /\ rd.pc = "idtbl"
    /\ rd' \in RdAcquire("idtbl", "idtbl_read", "out_xr")
    /\ UNCHANGED notRd

\* sqfs_id_table_read
RdIdTableRead ==
    /\ rd.pc = "idtbl_read"
    /\ rd' \in RdStep("dirrd", "out_id")
    /\ UNCHANGED notRd

\* sqfs_dir_reader_create
RdDirReaderCreate ==
    /\ rd.pc = "dirrd"
    /\ rd' \in RdAcquire("dirrd", "data", "out_id")
    /\ UNCHANGED notRd

\* sqfs_data_reader_create
RdDataReaderCreate ==
    /\ rd.pc = "data"
    /\ rd' \in RdAcquire("data", "frag", "out_dr")
    /\ UNCHANGED notRd

\* sqfs_data_reader_load_fragment_table
RdLoadFragmentTable ==
    /\ rd.pc = "frag"
    /\ rd' \in RdStep("tree", "out_data")
    /\ UNCHANGED notRd

\* sqfs_dir_reader_get_full_hierarchy
RdGetHierarchy ==
    /\ rd.pc = "tree"
    /\ rd' \in RdAcquire("tree", "op", "out_data")
    /\ UNCHANGED notRd

RdSucceed == rd' = [rd EXCEPT !.pc = "out", !.status = "EXIT_SUCCESS"]
RdGotoOut == rd' = [rd EXCEPT !.pc = "out"]

\* case OP_LS
RdList ==
    /\ rd.pc = "op" /\ rd.op = "OP_LS"
    /\ RdSucceed
    /\ UNCHANGED notRd

\* case OP_CAT
RdCat ==
    /\ rd.pc = "op" /\ rd.op = "OP_CAT"
    /\ IF ~rd.regular THEN RdGotoOut
       ELSE RdGotoOut \/ RdSucceed
    /\ UNCHANGED notRd

\* case OP_UNPACK: a failing mkdir_p or pushd returns -1 on the spot
RdUnpack ==
    /\ rd.pc = "op" /\ rd.op = "OP_UNPACK"
    /\ \/ rd.unpack_root /\ rd' = [rd EXCEPT !.pc = "exit", !.ret = "-1"]
       \/ RdGotoOut
       \/ RdSucceed
    /\ UNCHANGED notRd

\* case OP_DESCRIBE
RdDescribe ==
    /\ rd.pc = "op" /\ rd.op = "OP_DESCRIBE"
    /\ RdGotoOut \/ RdSucceed
    /\ UNCHANGED notRd

\* case OP_RDATTR
RdRdattr ==
    /\ rd.pc = "op" /\ rd.op = "OP_RDATTR"
    /\ RdGotoOut \/ RdSucceed
    /\ UNCHANGED notRd

\* a cleanup label: what it destroys and the label it falls into
RdDestroy(what, next) ==
    [rd EXCEPT !.pc = next, !.released = Append(@, what)]

RdOut ==
    /\ rd.pc = "out"
    /\ rd' = RdDestroy("tree", "out_data")
    /\ UNCHANGED notRd

RdOutData ==
    /\ rd.pc = "out_data"
    /\ rd' = RdDestroy("data", "out_dr")
    /\ UNCHANGED notRd

RdOutDr ==
    /\ rd.pc = "out_dr"
    /\ rd' = RdDestroy("dirrd", "out_id")
    /\ UNCHANGED notRd

RdOutId ==
    /\ rd.pc = "out_id"
    /\ rd' = RdDestroy("idtbl", "out_xr")
    /\ UNCHANGED notRd

\* if (xattr != NULL) sqfs_xattr_reader_destroy(xattr)
RdOutXr ==
    /\ rd.pc = "out_xr"
    /\ rd' = IF \E i \in 1..Len(rd.acquired) : rd.acquired[i] = "xattr"
             THEN RdDestroy("xattr", "out_cmp")
             ELSE [rd EXCEPT !.pc = "out_cmp"]
    /\ UNCHANGED notRd

RdOutCmp ==
    /\ rd.pc = "out_cmp"
    /\ rd' = RdDestroy("cmp", "out_file")
    /\ UNCHANGED notRd

RdOutFile ==
    /\ rd.pc = "out_file"
    /\ rd' = RdDestroy("file", "out_cmd")
    /\ UNCHANGED notRd

\* out_cmd: free(opt.cmdpath); return status
RdOutCmd ==
    /\ rd.pc = "out_cmd"
    /\ rd' = [rd EXCEPT !.pc = "exit", !.ret = rd.status]
    /\ UNCHANGED notRd

NextRd ==
    \/ RdOpenFile \/ RdSuperRead \/ RdCompressorExists \/ RdCompressorCreate
    \/ RdReadOptions \/ RdXattrCreate \/ RdXattrLoad \/ RdIdTableCreate
    \/ RdIdTableRead \/ RdDirReaderCreate \/ RdDataReaderCreate
    \/ RdLoadFragmentTable \/ RdGetHierarchy
    \/ RdList \/ RdCat \/ RdUnpack \/ RdDescribe \/ RdRdattr
    \/ RdOut \/ RdOutData \/ RdOutDr \/ RdOutId \/ RdOutXr \/ RdOutCmp
    \/ RdOutFile \/ RdOutCmd

SpecRd == InitRd /\ [][NextRd]_vars

Reverse(seq) == [i \in 1..Len(seq) |-> seq[Len(seq) + 1 - i]]

\* C22: when main has returned, what it released is exactly what it had
\* acquired, each resource once, in reverse order of acquisition.
C22_ReleasedInReverse ==
    rd.pc = "exit" => rd.released = Reverse(rd.acquired)

====
